---- MODULE Spec2Model ----
(***************************************************************************)
(* A model of the authenticator service: the token engine                  *)
(* (internal/token/service.go), the revocation ledger it keeps in redis,   *)
(* and the signup orchestrator (package signupapi).                        *)
(*                                                                         *)
(* Data.  Plain strings of the program (user IDs, addresses, codes) are    *)
(* TLA+ strings, "" being the empty string.  Derived strings (digests,     *)
(* base64url text, JSON text, OTP envelopes) are sequences of strings, the *)
(* leading elements naming the conversions applied, <<>> being the empty   *)
(* string.  Token IDs (ULIDs) are positive numbers, 0 being the empty ID.  *)
(* Time is the Unix clock in whole ticks.                                  *)
(***************************************************************************)
EXTENDS Integers, Sequences, FiniteSets, TLC

---------------------------------------------------------------------------
(* Bounds of the model *)

MaxTime == 3
MaxTokens == 2
MaxRand == 2

(* Configuration of the service (set by options at construction) *)
tokenExpiry == 1
refreshTokenExpiry == 2
otpExpiry == 1

Durations == 0..(tokenExpiry + 1)

---------------------------------------------------------------------------
(* Errors: the domain errors carry a code, every other error is rendered  *)
(* as Internal at the HTTP boundary.                                       *)

NoErr == [code |-> "", msg |-> ""]
ErrInvalidToken(m) == [code |-> "invalid_token", msg |-> m]
ErrInvalidField(m) == [code |-> "invalid_field", msg |-> m]
ErrBadRequest(m) == [code |-> "bad_request", msg |-> m]
ErrUncoded(m) == [code |-> "internal", msg |-> m]

---------------------------------------------------------------------------
(* Conversions *)

\* crypto.Hash: hex SHA-512 digest, collision free
Hash(x) == <<"sha512">> \o x

\* base64.RawURLEncoding: EncodeToString yields the canonical text; the
\* decoder skips the line breaks (\r, \n) of its input, so the text with a
\* line break in it is another spelling that decodes to the same bytes
EncodeToString(x) == IF x = <<>> THEN <<>> ELSE <<"b64url">> \o x
LineBroken(x) == IF x = <<>> THEN <<>> ELSE <<"b64url\n">> \o Tail(x)
DecodeOK(x) == x = <<>> \/ Head(x) \in {"b64url", "b64url\n"}
DecodeString(x) == IF x = <<>> THEN <<>> ELSE Tail(x)

\* strconv of a clock value, and its inverse
Itoa(n) == ToString(n)
Atoi(s) == CHOOSE n \in 0..(MaxTime + 8) : ToString(n) = s

\* json.Marshal / json.Unmarshal of a RefreshToken{Code, ExpiresAt}
MarshalRefreshToken(code, expiresAt) == <<"json", code, Itoa(expiresAt)>>
UnmarshalOK(b) == Len(b) = 3 /\ b[1] = "json"
UnmarshalExpiresAt(b) == Atoi(b[3])

\* crypto.String(n): the values the random source can yield
RandomStrings == {"r" \o ToString(i) : i \in 1..MaxRand}

---------------------------------------------------------------------------
(* The domain model (authenticator.go) *)

JWTPreAuthorized == "pre_authorized"
JWTAuthorized == "authorized"
TokenStates == {JWTPreAuthorized, JWTAuthorized}

Phone == "phone"
Email == "email"

Issuer == "authenticator"

\* auth.User: the fields the token engine and the signup flow read
NewUser(id, email, phone, password) ==
    [ID |-> id, Email |-> email, Phone |-> phone, Password |-> password,
     IsPhoneOTPAllowed |-> phone # "", IsEmailOTPAllowed |-> email # "",
     IsTOTPAllowed |-> FALSE, IsDeviceAllowed |-> FALSE, IsVerified |-> FALSE]

\* auth.Token: the zero value
NilToken ==
    [Id |-> 0, ExpiresAt |-> 0, Issuer |-> "",
     Code |-> "", CodeHash |-> <<>>,
     RefreshToken |-> <<>>, RefreshTokenHash |-> <<>>,
     UserID |-> "", Email |-> "", Phone |-> "",
     ClientID |-> <<>>, ClientIDHash |-> <<>>,
     State |-> "", TFAOptions |-> <<>>]

\* auth.TokenConfiguration: the zero value, and the three options
NilConf == [DeliveryMethod |-> "", DeliveryAddress |-> "", RefreshableToken |-> NilToken]
WithOTPDeliveryMethod(conf, method) == [conf EXCEPT !.DeliveryMethod = method]
WithOTPAddress(conf, address) == [conf EXCEPT !.DeliveryAddress = address]
WithRefreshableToken(conf, token) == [conf EXCEPT !.RefreshableToken = token]

---------------------------------------------------------------------------
(* State *)

VARIABLES
    now,        \* time.Now().Unix()
    ledger,     \* redis: token ID -> the TTL left on its key (0: no key, -1: no expiry)
    ulids,      \* number of ULIDs the entropy source has handed out
    issued,     \* the tokens Create has returned, as the caller holds them
    sealed,     \* history: IDs revoked for at least the presented token's lifetime
    users,      \* the user table
    uids,       \* number of user IDs the user repository has handed out
    logins,     \* the login-history table
    outbox,     \* the messages handed to the messaging service, in order
    redeemed,   \* history: <<header, code>> of every Signup-verify that succeeded
    resp,       \* the last request of the signup or device API and its response
    flight,     \* the requests of the signup API that are between two of their steps
    devices,    \* the device table
    dids,       \* number of device IDs the device repository has handed out
    messageQueue,   \* msgrepo: the channel, its buffer, capacity and closed flag
    senders,    \* msgrepo: the messages whose Publish is blocked in its send
    goroutines, \* msgrepo: the goroutines started by Recent, in order
    cancelled,  \* msgrepo: the contexts that have been cancelled
    trace       \* msgrepo history: Publish calls made, messages published and
                \* received in order, close calls made, panics raised

tokenVars == <<now, ledger, ulids, issued, sealed>>
signupVars == <<users, uids, logins, outbox, redeemed, resp, flight>>
deviceVars == <<devices, dids>>
msgVars == <<messageQueue, senders, goroutines, cancelled, trace>>
vars == <<now, ledger, ulids, issued, sealed, users, uids, logins, outbox, redeemed,
         resp, flight, devices, dids, messageQueue, senders, goroutines, cancelled,
         trace>>

\* make(chan *auth.Message, capacity), and the history of a new repository
NewQueue(capacity) == [buf |-> <<>>, cap |-> capacity, closed |-> FALSE]
NilTrace == [calls |-> 0, published |-> <<>>, received |-> <<>>, closes |-> 0,
             panics |-> {}, crashed |-> FALSE]

TokenIDs == 1..(MaxTokens + 1)
Persist == -1

\* redis GET: the key is there until its TTL elapses
LedgerHit(id) == ledger[id] # 0

---------------------------------------------------------------------------
(* The OTP engine (package otp): a code and its envelope                  *)
(*   <digest>:<expires-at>:<address>:<method>                              *)

OTPCode(code, address, method) ==
    [code |-> code,
     hash |-> Hash(<<code>>) \o <<Itoa(now + otpExpiry), address, method>>]

FromOTPHash(envelope) ==
    [CodeHash |-> SubSeq(envelope, 1, 2), ExpiresAt |-> Atoi(envelope[3]),
     Address |-> envelope[4], DeliveryMethod |-> envelope[5]]

ValidateOTP(code, envelope) ==
    IF Len(envelope) # 5 THEN ErrInvalidField("otp")
    ELSE IF now >= FromOTPHash(envelope).ExpiresAt THEN ErrInvalidField("otp")
    ELSE IF Hash(<<code>>) # FromOTPHash(envelope).CodeHash THEN ErrInvalidField("otp")
    ELSE NoErr

---------------------------------------------------------------------------
(* The token engine (internal/token/service.go) *)

\* mutant: the comparison is dropped
isHashValid_Any(str, hash) == Hash(str) = Hash(str)

isHashValid(str, hash) == Hash(str) = hash

\* mutant: the device entry comes first
genTFAOptions_DeviceFirst(user) ==
    (IF user.IsDeviceAllowed THEN <<"device">> ELSE <<>>)
    \o (IF user.IsPhoneOTPAllowed THEN <<"otp_phone">> ELSE <<>>)
    \o (IF user.IsEmailOTPAllowed THEN <<"otp_email">> ELSE <<>>)
    \o (IF user.IsTOTPAllowed THEN <<"totp">> ELSE <<>>)

\* genTFAOptions: the second factors the user has enabled
genTFAOptions(user) ==
    (IF user.IsPhoneOTPAllowed THEN <<"otp_phone">> ELSE <<>>)
    \o (IF user.IsEmailOTPAllowed THEN <<"otp_email">> ELSE <<>>)
    \o (IF user.IsTOTPAllowed THEN <<"totp">> ELSE <<>>)
    \o (IF user.IsDeviceAllowed THEN <<"device">> ELSE <<>>)

\* mutant: every token gets a new ULID
genULID_New(conf) == ulids + 1

\* the ID of the refreshed token, or the next ULID of the entropy source
genULID(conf) ==
    IF conf.RefreshableToken # NilToken
    THEN conf.RefreshableToken.Id
    ELSE ulids + 1

\* mutant: the digest is taken of the encoded text
genClientIDAndHash_HashEncoded(conf, clientID) ==
    IF conf.RefreshableToken # NilToken
    THEN <<<<>>, conf.RefreshableToken.ClientIDHash>>
    ELSE <<EncodeToString(<<clientID>>), Hash(EncodeToString(<<clientID>>))>>

\* <<plaintext for the cookie, digest for the claim>>
genClientIDAndHash(conf, clientID) ==
    IF conf.RefreshableToken # NilToken
    THEN <<<<>>, conf.RefreshableToken.ClientIDHash>>
    ELSE <<EncodeToString(<<clientID>>), Hash(<<clientID>>)>>

\* mutant: the envelope is made, the code is not handed back
genOTPAndHash_NoCode(conf, user, code) ==
    IF conf.DeliveryMethod = ""
    THEN [err |-> NoErr, code |-> "", hash |-> <<>>]
    ELSE [err |-> NoErr, code |-> "",
          hash |-> OTPCode(code, conf.DeliveryAddress, conf.DeliveryMethod).hash]

\* mutant: the user's address is used whether or not the channel is allowed
genOTPAndHash_Ungated(conf, user, code) ==
    IF conf.DeliveryMethod = ""
    THEN [err |-> NoErr, code |-> "", hash |-> <<>>]
    ELSE LET address == IF conf.DeliveryAddress # "" THEN conf.DeliveryAddress
                        ELSE IF conf.DeliveryMethod = Phone THEN user.Phone
                        ELSE user.Email
         IN IF address = ""
            THEN [err |-> ErrInvalidField("delivery address is not valid"),
                  code |-> "", hash |-> <<>>]
            ELSE [err |-> NoErr,
                  code |-> OTPCode(code, address, conf.DeliveryMethod).code,
                  hash |-> OTPCode(code, address, conf.DeliveryMethod).hash]

\* [err, code, hash]
genOTPAndHash(conf, user, code) ==
    IF conf.DeliveryMethod = ""
    THEN [err |-> NoErr, code |-> "", hash |-> <<>>]
    ELSE LET sendToDefaultAddress == conf.DeliveryAddress = ""
             usePhoneNumber == conf.DeliveryMethod = Phone
                               /\ user.IsPhoneOTPAllowed /\ sendToDefaultAddress
             useEmailAddress == conf.DeliveryMethod = Email
                                /\ user.IsEmailOTPAllowed /\ sendToDefaultAddress
             a1 == IF usePhoneNumber THEN user.Phone ELSE conf.DeliveryAddress
             address == IF useEmailAddress THEN user.Email ELSE a1
         IN IF address = ""
            THEN [err |-> ErrInvalidField("delivery address is not valid"),
                  code |-> "", hash |-> <<>>]
            ELSE [err |-> NoErr,
                  code |-> OTPCode(code, address, conf.DeliveryMethod).code,
                  hash |-> OTPCode(code, address, conf.DeliveryMethod).hash]

\* mutant: the digest is not kept in the claim
genRefreshTokenAndHash_NoHash(conf, code) ==
    IF conf.RefreshableToken # NilToken
    THEN <<<<>>, conf.RefreshableToken.RefreshTokenHash>>
    ELSE LET b == MarshalRefreshToken(code, now + refreshTokenExpiry)
         IN <<EncodeToString(b), <<>>>>

\* <<plaintext for the caller, digest for the claim>>
genRefreshTokenAndHash(conf, code) ==
    IF conf.RefreshableToken # NilToken
    THEN <<<<>>, conf.RefreshableToken.RefreshTokenHash>>
    ELSE LET b == MarshalRefreshToken(code, now + refreshTokenExpiry)
         IN <<EncodeToString(b), Hash(b)>>

\* Create: rnd holds what the random source yields in this call
Create(user, state, conf, rnd) ==
    LET client == genClientIDAndHash(conf, rnd.clientID)
        otp == genOTPAndHash(conf, user, rnd.otp)
        refresh == genRefreshTokenAndHash(conf, rnd.refresh)
    IN IF otp.err # NoErr
       THEN [err |-> otp.err, token |-> NilToken]
       ELSE [err |-> NoErr,
             token |-> [Id |-> genULID(conf),
                        ExpiresAt |-> now + tokenExpiry,
                        Issuer |-> Issuer,
                        Code |-> otp.code, CodeHash |-> otp.hash,
                        RefreshToken |-> refresh[1], RefreshTokenHash |-> refresh[2],
                        UserID |-> user.ID, Email |-> user.Email, Phone |-> user.Phone,
                        ClientID |-> client[1], ClientIDHash |-> client[2],
                        State |-> state, TFAOptions |-> genTFAOptions(user)]]

\* the JSON form of a token: the plaintext secrets are not serialized
Claims(token) ==
    [token EXCEPT !.Code = "", !.RefreshToken = <<>>, !.ClientID = <<>>]

\* Sign: the claims under an HS512 MAC keyed with the service's secret
Sign(token) == [alg |-> "HS512", key |-> "secret", claims |-> Claims(token)]

\* an Authorization header value
Bearer(jwt) == [scheme |-> "Bearer ", jwt |-> jwt]

\* mutant: the expiry is not verified
jwtParseOK_NoExp(jwt) ==
    /\ jwt.alg = "HS512"
    /\ jwt.key = "secret"

\* jwt.Parse with the key function of Validate: method, signature, exp
jwtParseOK(jwt) ==
    /\ jwt.alg = "HS512"
    /\ jwt.key = "secret"
    /\ (jwt.claims.ExpiresAt = 0 \/ now <= jwt.claims.ExpiresAt)

\* mutant: a lookup that fails counts as a miss
LedgerGet_FailOpen(id, dbOk) == IF dbOk /\ LedgerHit(id) THEN "hit" ELSE "nil"

\* redis GET of the token ID: "hit", "nil" (redis.Nil) or "err"
LedgerGet(id, dbOk) ==
    IF ~dbOk THEN "err" ELSE IF LedgerHit(id) THEN "hit" ELSE "nil"

\* what Validate returns before it has consulted the ledger
Rejected(err) == [err |-> err, token |-> NilToken, get |-> ""]

\* mutant: the ledger is consulted as soon as the header has a bearer token
Validate_LedgerFirst(signedToken, clientID, dbOk) ==
    LET token == signedToken.jwt.claims
        get == LedgerGet(token.Id, dbOk)
        rejected(err) == [err |-> err, token |-> NilToken, get |-> get]
    IN IF signedToken.scheme # "Bearer "
       THEN Rejected(ErrInvalidToken("bearer token expected"))
       ELSE IF get = "hit" THEN rejected(ErrInvalidToken("token is revoked"))
       ELSE IF get = "err" THEN rejected(ErrUncoded("failed to check token in redis"))
       ELSE IF ~jwtParseOK(signedToken.jwt)
       THEN rejected(ErrInvalidToken("token is invalid"))
       ELSE IF token.UserID = ""
       THEN rejected(ErrInvalidToken("token is not associated with user"))
       ELSE IF ~DecodeOK(clientID)
       THEN rejected(ErrUncoded("cannot decode client ID"))
       ELSE IF Hash(DecodeString(clientID)) # token.ClientIDHash
       THEN rejected(ErrInvalidToken("token source is invalid"))
       ELSE [err |-> NoErr, token |-> token, get |-> get]

\* mutant: the token returned is brought up to date with the user's row
Validate_Reconciled(signedToken, clientID, dbOk) ==
    LET token == signedToken.jwt.claims
        rows == {u \in users : u.ID = token.UserID}
        row == CHOOSE u \in rows : TRUE
    IN IF /\ signedToken.scheme = "Bearer "
          /\ jwtParseOK(signedToken.jwt)
          /\ token.UserID # ""
          /\ DecodeOK(clientID)
          /\ Hash(DecodeString(clientID)) = token.ClientIDHash
          /\ LedgerGet(token.Id, dbOk) = "nil"
       THEN [err |-> NoErr,
             token |-> IF rows = {} THEN token
                       ELSE [token EXCEPT !.Email = row.Email, !.Phone = row.Phone,
                                          !.TFAOptions = genTFAOptions(row)],
             get |-> "nil"]
       ELSE [err |-> ErrInvalidToken("token is invalid"), token |-> NilToken, get |-> ""]

\* Validate: [err, token, get], get being the ledger's answer, "" when the
\* ledger was not consulted; dbOk tells whether redis answers
Validate(signedToken, clientID, dbOk) ==
    IF signedToken.scheme # "Bearer "
    THEN Rejected(ErrInvalidToken("bearer token expected"))
    ELSE IF ~jwtParseOK(signedToken.jwt)
    THEN Rejected(ErrInvalidToken("token is invalid"))
    ELSE LET token == signedToken.jwt.claims
             get == LedgerGet(token.Id, dbOk)
         IN IF token.UserID = ""
            THEN Rejected(ErrInvalidToken("token is not associated with user"))
            ELSE IF ~DecodeOK(clientID)
            THEN Rejected(ErrUncoded("cannot decode client ID"))
            ELSE IF ~isHashValid(DecodeString(clientID), token.ClientIDHash)
            THEN Rejected(ErrInvalidToken("token source is invalid"))
            ELSE IF get = "hit"
            THEN [err |-> ErrInvalidToken("token is revoked"),
                  token |-> NilToken, get |-> get]
            ELSE IF get = "nil"
            THEN [err |-> NoErr, token |-> token, get |-> get]
            ELSE [err |-> ErrUncoded("failed to check token in redis"),
                  token |-> NilToken, get |-> get]

\* mutant: the SET is preceded by a flush of the other keys
Revoke_Flush(tokenID, duration) ==
    [id \in DOMAIN ledger |->
        IF id = tokenID THEN (IF duration = 0 THEN Persist ELSE duration) ELSE 0]

\* Revoke: the ledger after SET tokenID true EX duration (0: no expiry)
Revoke(tokenID, duration) ==
    [ledger EXCEPT ![tokenID] = IF duration = 0 THEN Persist ELSE duration]

\* mutant: the expiry of the refresh token is not looked at
Refreshable_NoExpiry(token, refreshToken) ==
    IF ~DecodeOK(refreshToken)
    THEN [code |-> "internal", msg |-> "cannot decode refresh token"]
    ELSE IF Hash(DecodeString(refreshToken)) # token.RefreshTokenHash
    THEN [code |-> "invalid_token", msg |-> "refresh token is invalid"]
    ELSE [code |-> "", msg |-> ""]

\* Refreshable: the error, NoErr when the token can be refreshed
Refreshable(token, refreshToken) ==
    IF ~DecodeOK(refreshToken)
    THEN ErrUncoded("cannot decode refresh token")
    ELSE IF ~isHashValid(DecodeString(refreshToken), token.RefreshTokenHash)
    THEN ErrInvalidToken("refresh token is invalid")
    ELSE IF ~UnmarshalOK(DecodeString(refreshToken))
    THEN ErrUncoded("invalid refresh token format")
    ELSE IF now >= UnmarshalExpiresAt(DecodeString(refreshToken))
    THEN ErrInvalidToken("refresh token is expired")
    ELSE NoErr

---------------------------------------------------------------------------
(* The repositories (interfaces of authenticator.go; the relational store *)
(* behind them keeps one row per user ID and per identity)                 *)

NilUser == NewUser("", "", "", "")

\* UserRepository.ByIdentity: the row whose attribute has the value, or
\* sql.ErrNoRows; ok tells whether the store answers
ByIdentity(attribute, value, ok) ==
    IF ~ok THEN [err |-> "error", user |-> NilUser]
    ELSE IF \E u \in users : u[attribute] = value
    THEN [err |-> "", user |-> CHOOSE u \in users : u[attribute] = value]
    ELSE [err |-> "no_rows", user |-> NilUser]

\* the next ID of the user repository
NextUserID == "u" \o ToString(uids + 1)

\* UserRepository.Create: the row is stored under a new ID, which is set on
\* the entity passed
UserCreate(table, u) == table \cup {[u EXCEPT !.ID = NextUserID]}

\* mutant: the row keeps its ID
UserReCreate_KeepID(table, old, u) ==
    (table \ {old}) \cup {[u EXCEPT !.IsVerified = FALSE]}

\* UserRepository.ReCreate: the row of the entity passed is replaced by the
\* entity as if it had just registered: new ID, unverified
UserReCreate(table, old, u) ==
    (table \ {old}) \cup {[u EXCEPT !.ID = NextUserID, !.IsVerified = FALSE]}

\* UserRepository.Update
UserUpdate(table, old, u) == (table \ {old}) \cup {u}

---------------------------------------------------------------------------
(* The auth middleware (internal/httpapi/middleware.go) *)

\* the request has no Authorization header
NilHeader == [scheme |-> "", jwt |-> Sign(NilToken)]

\* TokenService.Validate as the middleware calls it, with the signed token
\* alone: signed by us, unexpired, unrevoked; the unpacked token on success
ValidateSigned(signedToken, dbOk) ==
    IF signedToken.scheme # "Bearer "
    THEN Rejected(ErrInvalidToken("bearer token expected"))
    ELSE IF ~jwtParseOK(signedToken.jwt)
    THEN Rejected(ErrInvalidToken("token is invalid"))
    ELSE LET token == signedToken.jwt.claims
             get == LedgerGet(token.Id, dbOk)
         IN IF token.UserID = ""
            THEN Rejected(ErrInvalidToken("token is not associated with user"))
            ELSE IF get = "hit"
            THEN [err |-> ErrInvalidToken("token is revoked"),
                  token |-> NilToken, get |-> get]
            ELSE IF get = "nil"
            THEN [err |-> NoErr, token |-> token, get |-> get]
            ELSE [err |-> ErrUncoded("failed to check token in redis"),
                  token |-> NilToken, get |-> get]

\* mutant: the error of Validate is dropped
AuthMiddleware_Admit(header, cookie, dbOk) ==
    [err |-> NoErr, token |-> header.jwt.claims, get |-> ""]

\* AuthMiddleware: the Validate result that admits the request to the
\* wrapped handler (its token's user ID goes into the request context), or
\* the error that ends the request; the CLIENTID cookie of the request is
\* not read
AuthMiddleware(header, cookie, dbOk) ==
    IF header = NilHeader
    THEN Rejected(ErrInvalidToken("user is not authenticated"))
    ELSE ValidateSigned(header, dbOk)

---------------------------------------------------------------------------
(* The signup orchestrator (package signupapi) *)

\* a signup request: type is "email" or "phone"
SignupRequest(type, identity, password) ==
    [Type |-> type, Identity |-> identity, Password |-> password]

\* signupRequest.ToUser and signupRequest.UserAttribute
ToUser(req) ==
    IF req.Type = Email
    THEN NewUser("", req.Identity, "", req.Password)
    ELSE NewUser("", "", req.Identity, req.Password)
UserAttribute(req) == IF req.Type = Email THEN "Email" ELSE "Phone"

\* token.Response, with the Set-Cookie header of the HTTP response beside
\* it; replay tells that the request repeats a Verify that has succeeded
NilResp ==
    [op |-> "", err |-> NoErr, Token |-> Sign(NilToken), ClientID |-> <<>>,
     RefreshToken |-> <<>>, Cookie |-> <<>>, replay |-> FALSE]

\* what a handler leaves behind: the response, the tables, the outbox and
\* the numbers of IDs drawn
Outcome(r, us, ls, tokens, out, nu, nt) ==
    [resp |-> r, users |-> us, logins |-> ls, issued |-> tokens,
     outbox |-> out, uids |-> nu, ulids |-> nt]

\* a handler returns (nil, err)
Failed(op, err, us, nu, nt) ==
    Outcome([NilResp EXCEPT !.op = op, !.err = err], us, logins, issued, outbox, nu, nt)

\* mutant: the row read under the lock is not looked at
reCreateUser_NoReassert(userID, newUser, ok) ==
    IF ~ok \/ ~\E u \in users : u.ID = userID
    THEN [err |-> ErrUncoded("get for update"), users |-> users,
          user |-> newUser, uids |-> uids]
    ELSE LET row == CHOOSE u \in users : u.ID = userID
             user == [row EXCEPT !.Email = newUser.Email, !.Phone = newUser.Phone,
                                 !.Password = newUser.Password]
         IN [err |-> NoErr, users |-> UserReCreate(users, row, user),
             user |-> [user EXCEPT !.ID = NextUserID], uids |-> uids + 1]

\* reCreateUser: [err, users, user, uids]; one transaction under GetForUpdate
reCreateUser(userID, newUser, ok) ==
    IF ~ok \/ ~\E u \in users : u.ID = userID
    THEN [err |-> ErrUncoded("get for update"), users |-> users,
          user |-> newUser, uids |-> uids]
    ELSE LET row == CHOOSE u \in users : u.ID = userID
             user == [row EXCEPT !.Email = newUser.Email, !.Phone = newUser.Phone,
                                 !.Password = newUser.Password]
         IN IF row.IsVerified
            THEN [err |-> ErrBadRequest("cannot register user"),
                  users |-> users, user |-> newUser, uids |-> uids]
            ELSE [err |-> NoErr, users |-> UserReCreate(users, row, user),
                  user |-> [user EXCEPT !.ID = NextUserID], uids |-> uids + 1]

\* createUser: [err, users, user, uids]
createUser(newUser, ok) ==
    IF ~ok
    THEN [err |-> ErrUncoded("create user"), users |-> users,
          user |-> newUser, uids |-> uids]
    ELSE [err |-> NoErr, users |-> UserCreate(users, newUser),
          user |-> [newUser EXCEPT !.ID = NextUserID], uids |-> uids + 1]

\* mutant: the row is not updated
markUserVerified_NoUpdate(user, ok) ==
    IF ~ok \/ ~\E u \in users : u.ID = user.ID
    THEN [err |-> ErrUncoded("failed to get user for update"), users |-> users]
    ELSE [err |-> NoErr, users |-> users]

\* markUserVerified: [err, users]; one transaction under GetForUpdate
markUserVerified(user, ok) ==
    IF ~ok \/ ~\E u \in users : u.ID = user.ID
    THEN [err |-> ErrUncoded("failed to get user for update"), users |-> users]
    ELSE LET row == CHOOSE u \in users : u.ID = user.ID
         IN [err |-> NoErr,
             users |-> UserUpdate(users, row, [row EXCEPT !.IsVerified = TRUE])]

\* mutant: the error of Send is dropped
respond_SendUnchecked(op, us, ls, nu, jwtToken, sendOk) ==
    Outcome([NilResp EXCEPT !.op = op,
                            !.Token = Sign(jwtToken),
                            !.ClientID = jwtToken.ClientID,
                            !.Cookie = jwtToken.ClientID,
                            !.RefreshToken = IF jwtToken.State = JWTAuthorized
                                             THEN jwtToken.RefreshToken ELSE <<>>],
            us, ls, issued \cup {jwtToken},
            IF jwtToken.CodeHash # <<>> /\ sendOk
            THEN Append(outbox, [Type |-> "otp_signup",
                                 Delivery |-> FromOTPHash(jwtToken.CodeHash).DeliveryMethod,
                                 Code |-> jwtToken.Code,
                                 Address |-> FromOTPHash(jwtToken.CodeHash).Address])
            ELSE outbox,
            nu, ulids + 1)

\* mutant: the refresh token goes out with a token of any state
respond_AnyState(op, us, ls, nu, jwtToken, sendOk) ==
    Outcome([NilResp EXCEPT !.op = op,
                            !.Token = Sign(jwtToken),
                            !.ClientID = jwtToken.ClientID,
                            !.Cookie = jwtToken.ClientID,
                            !.RefreshToken = jwtToken.RefreshToken],
            us, ls, issued \cup {jwtToken},
            IF jwtToken.CodeHash # <<>>
            THEN Append(outbox, [Type |-> "otp_signup",
                                 Delivery |-> FromOTPHash(jwtToken.CodeHash).DeliveryMethod,
                                 Code |-> jwtToken.Code,
                                 Address |-> FromOTPHash(jwtToken.CodeHash).Address])
            ELSE outbox,
            nu, ulids + 1)

\* respond: signs the token, sets the cookie, sends the OTP message of a
\* token that has an envelope, and answers with the token
respond(op, us, ls, nu, jwtToken, sendOk) ==
    LET h == FromOTPHash(jwtToken.CodeHash)
        msg == [Type |-> "otp_signup", Delivery |-> h.DeliveryMethod,
                Code |-> jwtToken.Code, Address |-> h.Address]
    IN IF jwtToken.CodeHash # <<>> /\ ~sendOk
       THEN Outcome([NilResp EXCEPT !.op = op, !.err = ErrUncoded("send"),
                                    !.Cookie = jwtToken.ClientID],
                    us, ls, issued \cup {jwtToken}, outbox, nu, ulids + 1)
       ELSE Outcome([NilResp EXCEPT
                        !.op = op,
                        !.Token = Sign(jwtToken),
                        !.ClientID = jwtToken.ClientID,
                        !.Cookie = jwtToken.ClientID,
                        !.RefreshToken = IF jwtToken.State = JWTAuthorized
                                         THEN jwtToken.RefreshToken ELSE <<>>],
                    us, ls, issued \cup {jwtToken},
                    IF jwtToken.CodeHash # <<>> THEN Append(outbox, msg) ELSE outbox,
                    nu, ulids + 1)

\* what a request meets on its way: "" (nothing), or the collaborator that
\* fails
SignUpFaults == {"", "lookup", "store", "send"}
\* what can fail in SignUp once the user row is stored: Create, Sign, Send
LateFaults == {"mint", "sign", "send"}
VerifyFaults == {"", "lookup", "store", "history"}

\* mutant: no user counts as verified
isUserVerified_Never(user, err) == FALSE

isUserVerified(user, err) == err = "" /\ user.IsVerified
isUserNotVerified(user, err) == err = "" /\ ~user.IsVerified
isUserNonExistent(user, err) == err = "no_rows" /\ user = NilUser
isUserCheckFailed(err) == err # "" /\ err # "no_rows"

\* mutant: a request that fails after the row was stored rolls the row back
SignUpFrom_Atomic(found, req, rnd, fault) ==
    LET newUser == ToUser(req)
        stored == IF isUserNotVerified(found.user, found.err)
                  THEN reCreateUser(found.user.ID, newUser, fault # "store")
                  ELSE IF isUserNonExistent(found.user, found.err)
                  THEN createUser(newUser, fault # "store")
                  ELSE [err |-> IF found.err = "" THEN NoErr ELSE ErrUncoded(found.err),
                        users |-> users, user |-> newUser, uids |-> uids]
        minted == Create(stored.user, JWTPreAuthorized,
                         WithOTPDeliveryMethod(NilConf, req.Type), rnd)
        sent == respond("SignUp", stored.users, logins, stored.uids, minted.token,
                        fault # "send")
    IN IF isUserCheckFailed(found.err)
       THEN Failed("SignUp", ErrUncoded("failed to check user identity"),
                   users, uids, ulids)
       ELSE IF isUserVerified(found.user, found.err)
       THEN Failed("SignUp", ErrBadRequest("cannot register user"), users, uids, ulids)
       ELSE IF stored.err # NoErr
       THEN Failed("SignUp", stored.err, users, uids, ulids)
       ELSE IF minted.err # NoErr \/ fault \in {"mint", "sign"}
       THEN Failed("SignUp", ErrUncoded("rolled back"), users, uids, ulids + 1)
       ELSE IF sent.resp.err # NoErr
       THEN [sent EXCEPT !.users = users, !.uids = uids]
       ELSE sent

\* SignUp from the answer of ByIdentity on; the faults "mint" and "sign" are
\* the random source failing in Create and the signing failing in respond
SignUpFrom(found, req, rnd, fault) ==
    LET newUser == ToUser(req)
        stored == IF isUserNotVerified(found.user, found.err)
                  THEN reCreateUser(found.user.ID, newUser, fault # "store")
                  ELSE IF isUserNonExistent(found.user, found.err)
                  THEN createUser(newUser, fault # "store")
                  ELSE [err |-> IF found.err = "" THEN NoErr ELSE ErrUncoded(found.err),
                        users |-> users, user |-> newUser, uids |-> uids]
        minted == Create(stored.user, JWTPreAuthorized,
                         WithOTPDeliveryMethod(NilConf, req.Type), rnd)
    IN IF isUserCheckFailed(found.err)
       THEN Failed("SignUp", ErrUncoded("failed to check user identity"),
                   users, uids, ulids)
       ELSE IF isUserVerified(found.user, found.err)
       THEN Failed("SignUp", ErrBadRequest("cannot register user"), users, uids, ulids)
       ELSE IF stored.err # NoErr
       THEN Failed("SignUp", stored.err, stored.users, stored.uids, ulids)
       ELSE IF minted.err # NoErr
       THEN Failed("SignUp", minted.err, stored.users, stored.uids, ulids + 1)
       ELSE IF fault = "mint"
       THEN Failed("SignUp", ErrUncoded("failed to generate client ID"),
                   stored.users, stored.uids, ulids + 1)
       ELSE IF fault = "sign"
       THEN Failed("SignUp", ErrUncoded("failed to sign JWT token"),
                   stored.users, stored.uids, ulids + 1)
       ELSE respond("SignUp", stored.users, logins, stored.uids, minted.token,
                    fault # "send")

\* SignUp
SignUp(req, rnd, fault) ==
    SignUpFrom(ByIdentity(UserAttribute(req), req.Identity, fault # "lookup"),
               req, rnd, fault)

\* mutant: the code is not validated
VerifyFrom_NoOTP(auth, found, code, rnd, fault) ==
    LET minted == Create(found.user, JWTAuthorized, NilConf, rnd)
        marked == markUserVerified(found.user, fault # "store")
        loginHistory == [UserID |-> auth.token.UserID, TokenID |-> minted.token.Id,
                         ExpiresAt |-> now + refreshTokenExpiry]
    IN IF auth.err # NoErr
       THEN Failed("Verify", auth.err, users, uids, ulids)
       ELSE IF found.err # ""
       THEN Failed("Verify", ErrUncoded(found.err), users, uids, ulids)
       ELSE IF minted.err # NoErr
       THEN Failed("Verify", minted.err, users, uids, ulids + 1)
       ELSE IF marked.err # NoErr
       THEN Failed("Verify", marked.err, users, uids, ulids + 1)
       ELSE IF fault = "history"
       THEN Failed("Verify", ErrUncoded("login history"), marked.users, uids, ulids + 1)
       ELSE respond("Verify", marked.users, logins \cup {loginHistory}, uids,
                    minted.token, TRUE)

\* Verify from the answers of AuthMiddleware and ByIdentity on
VerifyFrom(auth, found, code, rnd, fault) ==
    LET userID == auth.token.UserID
        token == auth.token
        minted == Create(found.user, JWTAuthorized, NilConf, rnd)
        marked == markUserVerified(found.user, fault # "store")
        loginHistory == [UserID |-> userID, TokenID |-> minted.token.Id,
                         ExpiresAt |-> now + refreshTokenExpiry]
    IN IF auth.err # NoErr
       THEN Failed("Verify", auth.err, users, uids, ulids)
       ELSE IF found.err # ""
       THEN Failed("Verify", ErrUncoded(found.err), users, uids, ulids)
       ELSE IF ValidateOTP(code, token.CodeHash) # NoErr
       THEN Failed("Verify", ValidateOTP(code, token.CodeHash), users, uids, ulids)
       ELSE IF minted.err # NoErr
       THEN Failed("Verify", minted.err, users, uids, ulids + 1)
       ELSE IF marked.err # NoErr
       THEN Failed("Verify", marked.err, users, uids, ulids + 1)
       ELSE IF fault = "history"
       THEN Failed("Verify", ErrUncoded("login history"), marked.users, uids, ulids + 1)
       ELSE respond("Verify", marked.users, logins \cup {loginHistory}, uids,
                    minted.token, TRUE)

\* mutant: the user is looked up by the email of the token
Verify_ByEmail(header, cookie, code, rnd, fault) ==
    VerifyFrom(AuthMiddleware(header, cookie, TRUE),
               ByIdentity("Email", AuthMiddleware(header, cookie, TRUE).token.Email,
                          fault # "lookup"),
               code, rnd, fault)

\* Verify, behind AuthMiddleware
Verify(header, cookie, code, rnd, fault) ==
    VerifyFrom(AuthMiddleware(header, cookie, TRUE),
               ByIdentity("ID", AuthMiddleware(header, cookie, TRUE).token.UserID,
                          fault # "lookup"),
               code, rnd, fault)

\* no request is between two steps
NilFlight ==
    [su |-> [pc |-> "idle", req |-> SignupRequest("", "", ""),
             found |-> [err |-> "", user |-> NilUser]],
     vf |-> [pc |-> "idle", header |-> NilHeader, code |-> "",
             auth |-> Rejected(NoErr), found |-> [err |-> "", user |-> NilUser]]]

---------------------------------------------------------------------------
(* The calls made on the token engine *)

User1 == NewUser("u1", "a@x", "", "pw")
User2 == NewUser("u2", "", "555", "pw")
Anonymous == NewUser("", "", "", "")

\* the Authorization headers a client can make of a token it holds: the
\* header it was given, the bare JWT, and the JWT with its expiry pushed
\* forward, signed with a key of the client's own
HeadersOf(t) ==
    {Bearer(Sign(t)),
     [scheme |-> "", jwt |-> Sign(t)],
     Bearer([alg |-> "HS512", key |-> "other",
             claims |-> [Claims(t) EXCEPT !.ExpiresAt = MaxTime + 1]])}

Headers == UNION {HeadersOf(t) : t \in issued}

\* the CLIENTID cookies a client can present: the ones issued (a refreshed
\* token comes with none), the same with a line break added, text that is
\* not base64url, and base64url text of the client's own making
Cookies ==
    {t.ClientID : t \in issued} \cup {LineBroken(t.ClientID) : t \in issued}
        \cup {<<>>, <<"%%">>, EncodeToString(<<"zz">>)}

\* the refresh tokens a client can present: the ones issued, the same with
\* a line break added, none, text that is not base64url, and base64url text
\* of the client's own making
RefreshTokens ==
    {t.RefreshToken : t \in issued} \cup {LineBroken(t.RefreshToken) : t \in issued}
        \cup {<<>>, <<"%%">>, EncodeToString(<<"zz">>)}

Init ==
    /\ now = 1
    /\ ledger = [id \in TokenIDs |-> 0]
    /\ ulids = 0
    /\ issued = {}
    /\ sealed = {}
    /\ users = {}
    /\ uids = 0
    /\ logins = {}
    /\ outbox = <<>>
    /\ redeemed = {}
    /\ resp = NilResp
    /\ flight = NilFlight
    /\ devices = {}
    /\ dids = 0
    /\ messageQueue = NewQueue(0)
    /\ senders = {}
    /\ goroutines = <<>>
    /\ cancelled = {}
    /\ trace = NilTrace

\* the clock advances, and with it the TTL of every key of the ledger
Tick ==
    /\ now < MaxTime
    /\ now' = now + 1
    /\ ledger' = [id \in TokenIDs |-> IF ledger[id] > 0 THEN ledger[id] - 1 ELSE ledger[id]]
    /\ UNCHANGED <<ulids, issued, sealed>>
    /\ UNCHANGED <<signupVars, deviceVars, msgVars>>

\* Create(user, state, options...) without WithRefreshableToken, while fewer
\* than limit tokens are out
CreateToken(user, state, conf, rnd, limit) ==
    /\ conf.RefreshableToken = NilToken
    /\ ulids < limit
    /\ Cardinality(issued) < limit
    /\ LET r == Create(user, state, conf, rnd)
       IN issued' = IF r.err = NoErr THEN issued \cup {r.token} ELSE issued
    /\ ulids' = ulids + 1
    /\ UNCHANGED <<now, ledger, sealed>>
    /\ UNCHANGED <<signupVars, deviceVars, msgVars>>

\* Create(user, state, WithRefreshableToken(old))
RefreshToken(user, state, old) ==
    /\ Cardinality(issued) < MaxTokens
    /\ LET r == Create(user, state, WithRefreshableToken(NilConf, old),
                       [clientID |-> "r1", otp |-> "r1", refresh |-> "r1"])
       IN issued' = issued \cup {r.token}
    /\ UNCHANGED <<now, ledger, ulids, sealed>>
    /\ UNCHANGED <<signupVars, deviceVars, msgVars>>

\* the duration covers what is left of the token's life: the key is still
\* there at the last tick the token's expiry admits
Outlives(duration, token) == duration = 0 \/ now + duration > token.ExpiresAt

\* Revoke(token.Id, duration), the token being the one presented for
\* revocation; sealed records the IDs whose latest revocation outlives the
\* token it was asked for
RevokeToken(token, duration, dbOk) ==
    /\ ledger' = IF dbOk THEN Revoke(token.Id, duration) ELSE ledger
    /\ sealed' = IF ~dbOk THEN sealed
                 ELSE IF Outlives(duration, token) THEN sealed \cup {token.Id}
                 ELSE sealed \ {token.Id}
    /\ UNCHANGED <<now, ulids, issued>>
    /\ UNCHANGED <<signupVars, deviceVars, msgVars>>

\* Validate(header, cookie): reads the ledger, writes nothing
ValidateCall(header, cookie, dbOk) ==
    /\ Validate(header, cookie, dbOk).err \in
          {NoErr, ErrInvalidToken("bearer token expected"),
           ErrInvalidToken("token is invalid"),
           ErrInvalidToken("token is not associated with user"),
           ErrUncoded("cannot decode client ID"),
           ErrInvalidToken("token source is invalid"),
           ErrInvalidToken("token is revoked"),
           ErrUncoded("failed to check token in redis")}
    /\ UNCHANGED vars

\* Cookie: the CLIENTID cookie that accompanies a token
Cookie(token) ==
    [Name |-> "CLIENTID", Value |-> token.ClientID, Path |-> "/",
     Secure |-> TRUE, HttpOnly |-> TRUE]

\* Sign(token): computes the signed string, writes nothing
SignCall(token) ==
    /\ Sign(token).claims = Claims(token)
    /\ UNCHANGED vars

\* Cookie(token): builds the cookie, writes nothing
CookieCall(token) ==
    /\ Cookie(token).Value = token.ClientID
    /\ UNCHANGED vars

\* Refreshable(token, refreshToken): reads the clock, writes nothing
RefreshableCall(token, refreshToken) ==
    /\ Refreshable(token, refreshToken).code \in {"", "invalid_token", "internal"}
    /\ UNCHANGED vars

---------------------------------------------------------------------------
(* The token engine against its ledger: tokens are minted, presented with *)
(* cookies, refreshed, revoked and left to expire.                         *)

Confs == {NilConf, WithOTPDeliveryMethod(NilConf, Email)}

NextToken ==
    \/ Tick
    \/ \E c \in RandomStrings :
          CreateToken(User1, JWTAuthorized, NilConf,
                      [clientID |-> c, otp |-> "r1", refresh |-> "r1"], MaxTokens)
    \/ \E old \in issued : RefreshToken(User1, JWTAuthorized, old)
    \/ \E t \in issued, d \in Durations, dbOk \in BOOLEAN : RevokeToken(t, d, dbOk)
    \/ \E h \in Headers, c \in Cookies, dbOk \in BOOLEAN : ValidateCall(h, c, dbOk)
    \/ \E t \in issued, r \in RefreshTokens : RefreshableCall(t, r)

SpecToken == Init /\ [][NextToken]_vars

---------------------------------------------------------------------------
(* Every operation of the token service against the ledger.                *)

NextLedger ==
    \/ Tick
    \/ \E c \in RandomStrings :
          CreateToken(User1, JWTAuthorized, NilConf,
                      [clientID |-> c, otp |-> "r1", refresh |-> "r1"], MaxTokens)
    \/ \E old \in issued : RefreshToken(User1, JWTAuthorized, old)
    \/ \E t \in issued, d \in Durations, dbOk \in BOOLEAN : RevokeToken(t, d, dbOk)
    \/ \E t, u \in issued, dbOk \in BOOLEAN : ValidateCall(Bearer(Sign(t)), u.ClientID, dbOk)
    \/ \E t, u \in issued : RefreshableCall(t, u.RefreshToken)
    \/ \E t \in issued : SignCall(t)
    \/ \E t \in issued : CookieCall(t)

SpecLedger == Init /\ [][NextLedger]_vars

---------------------------------------------------------------------------
(* One token minted from every kind of input, then presented, revoked and *)
(* left to expire.                                                         *)

MintConfs == {NilConf, WithOTPDeliveryMethod(NilConf, Email),
              WithOTPDeliveryMethod(NilConf, Phone),
              WithOTPAddress(WithOTPDeliveryMethod(NilConf, Phone), "777")}

MintRnd == [clientID : RandomStrings, otp : RandomStrings, refresh : RandomStrings]

NextMint ==
    \/ Tick
    \/ \E u \in {User1, User2, Anonymous}, s \in TokenStates, conf \in MintConfs,
          rnd \in MintRnd : CreateToken(u, s, conf, rnd, 1)
    \/ \E t \in issued, d \in Durations, dbOk \in BOOLEAN : RevokeToken(t, d, dbOk)
    \/ \E h \in Headers, c \in Cookies, dbOk \in BOOLEAN : ValidateCall(h, c, dbOk)
    \/ \E t \in issued, r \in RefreshTokens : RefreshableCall(t, r)

SpecMint == Init /\ [][NextMint]_vars

---------------------------------------------------------------------------
(* The signup API: POST /signup and POST /signup/verify, requests arriving *)
(* in any order, with whatever header, cookie and code the client holds.   *)

Identities == {<<Email, "a@x">>, <<Email, "b@x">>}
SignupRequests == {SignupRequest(i[1], i[2], "pw") : i \in Identities}
\* what the random source yields in the call that mints the next token: a
\* client ID of its own, and the first of the codes
SignupRnd == [clientID |-> "r" \o ToString(ulids + 1), otp |-> "r1", refresh |-> "r1"]
Codes == RandomStrings

\* what a client of the signup API presents: the header and the cookie of a
\* response it has had, or none
SignupHeaders == {Bearer(Sign(t)) : t \in issued} \cup {NilHeader}
SignupCookies == {t.ClientID : t \in issued} \cup {<<>>}

\* the cookie a client sends along with a header: the one that came with
\* the header's token, or none
CookiesWith(header) ==
    {t.ClientID : t \in {i \in issued : Bearer(Sign(i)) = header}} \cup {<<>>}

\* POST /signup
SignUpCall(req, rnd, fault) ==
    /\ ulids < MaxTokens + 1
    /\ LET o == SignUp(req, rnd, fault)
       IN /\ users' = o.users
          /\ uids' = o.uids
          /\ issued' = o.issued
          /\ ulids' = o.ulids
          /\ outbox' = o.outbox
          /\ logins' = o.logins
          /\ resp' = o.resp
    /\ UNCHANGED <<now, ledger, sealed, redeemed, flight, deviceVars, msgVars>>

\* POST /signup/verify
VerifyCall(header, cookie, code, rnd, fault) ==
    /\ ulids < MaxTokens + 1
    /\ LET o == Verify(header, cookie, code, rnd, fault)
       IN /\ users' = o.users
          /\ uids' = o.uids
          /\ issued' = o.issued
          /\ ulids' = o.ulids
          /\ outbox' = o.outbox
          /\ logins' = o.logins
          /\ resp' = [o.resp EXCEPT !.replay = <<header, code>> \in redeemed]
          /\ redeemed' = IF o.resp.err = NoErr
                         THEN redeemed \cup {<<header, code>>} ELSE redeemed
    /\ UNCHANGED <<now, ledger, sealed, flight, deviceVars, msgVars>>

NextSignup ==
    \/ Tick
    \/ \E req \in SignupRequests, fault \in SignUpFaults :
          SignUpCall(req, SignupRnd, fault)
    \/ \E h \in SignupHeaders, code \in Codes, fault \in VerifyFaults :
          \E c \in CookiesWith(h) : VerifyCall(h, c, code, SignupRnd, fault)

SpecSignup == Init /\ [][NextSignup]_vars

---------------------------------------------------------------------------
(* A SignUp and a Signup-verify for one identity, each suspended between   *)
(* its lookup of the user and its transaction on the user row, so that the *)
(* steps of the two requests interleave in every order.                    *)

RaceRequests == {SignupRequest(Email, "a@x", p) : p \in {"pw", "pw2"}}

\* SignUp up to the answer of ByIdentity
BeginSignUp(req, ok) ==
    /\ flight.su.pc = "idle"
    /\ flight' = [flight EXCEPT !.su = [pc |-> "looked", req |-> req,
                      found |-> ByIdentity(UserAttribute(req), req.Identity, ok)]]
    /\ UNCHANGED <<tokenVars, users, uids, logins, outbox, redeemed, resp, deviceVars, msgVars>>

\* SignUp from the answer of ByIdentity on
EndSignUp(fault) ==
    /\ flight.su.pc = "looked"
    /\ ulids < MaxTokens + 1
    /\ LET o == SignUpFrom(flight.su.found, flight.su.req, SignupRnd, fault)
       IN /\ users' = o.users
          /\ uids' = o.uids
          /\ issued' = o.issued
          /\ ulids' = o.ulids
          /\ outbox' = o.outbox
          /\ logins' = o.logins
          /\ resp' = o.resp
    /\ flight' = [flight EXCEPT !.su.pc = "idle"]
    /\ UNCHANGED <<now, ledger, sealed, redeemed, deviceVars, msgVars>>

\* Verify up to the answer of ByIdentity
BeginVerify(header, cookie, code, ok) ==
    /\ flight.vf.pc = "idle"
    /\ LET auth == AuthMiddleware(header, cookie, TRUE)
       IN flight' = [flight EXCEPT !.vf = [pc |-> "loaded", header |-> header,
                         code |-> code, auth |-> auth,
                         found |-> ByIdentity("ID", auth.token.UserID, ok)]]
    /\ UNCHANGED <<tokenVars, users, uids, logins, outbox, redeemed, resp, deviceVars, msgVars>>

\* Verify from the answer of ByIdentity on
EndVerify(fault) ==
    /\ flight.vf.pc = "loaded"
    /\ ulids < MaxTokens + 1
    /\ LET o == VerifyFrom(flight.vf.auth, flight.vf.found, flight.vf.code,
                           SignupRnd, fault)
       IN /\ users' = o.users
          /\ uids' = o.uids
          /\ issued' = o.issued
          /\ ulids' = o.ulids
          /\ outbox' = o.outbox
          /\ logins' = o.logins
          /\ resp' = [o.resp EXCEPT
                         !.replay = <<flight.vf.header, flight.vf.code>> \in redeemed]
          /\ redeemed' = IF o.resp.err = NoErr
                         THEN redeemed \cup {<<flight.vf.header, flight.vf.code>>}
                         ELSE redeemed
    /\ flight' = [flight EXCEPT !.vf.pc = "idle"]
    /\ UNCHANGED <<now, ledger, sealed, deviceVars, msgVars>>

NextRace ==
    \/ \E req \in RaceRequests, ok \in BOOLEAN : BeginSignUp(req, ok)
    \/ \E fault \in {"", "store", "send"} : EndSignUp(fault)
    \/ \E h \in SignupHeaders, c \in SignupCookies, code \in Codes, ok \in BOOLEAN :
          BeginVerify(h, c, code, ok)
    \/ \E fault \in {"", "store", "history"} : EndVerify(fault)

SpecRace == Init /\ [][NextRace]_vars

---------------------------------------------------------------------------
(* The device API (package deviceapi): the devices of a user are removed   *)
(* and renamed behind the auth middleware.                                  *)

MaxDevices == 2

\* a Device row; the repository hands out the ID; SignCount is the stored
\* signature counter, 0 at registration
NewDevice(id, userID, name) ==
    [ID |-> id, UserID |-> userID, Name |-> name, SignCount |-> 0]

\* a WebAuthn credential presented at login: the device it names and the
\* signature counter it attests
Credential(deviceID, signCount) == [DeviceID |-> deviceID, SignCount |-> signCount]

\* WebAuthn.Validate (package credential): whether the credential is valid
\* for the user; it returns nil
WebAuthnValidate(user, passwd) == NoErr
NextDeviceID == "d" \o ToString(dids + 1)

\* mutant: the devices of every user
ByUserID_All(table, userID) == table

\* DeviceRepository.ByUserID: all devices associated with a user
ByUserID(table, userID) == {d \in table : d.UserID = userID}

\* DeviceRepository.Create
DeviceCreate(table, device) == table \cup {[device EXCEPT !.ID = NextDeviceID]}

\* DeviceRepository.GetForUpdate: the row of the ID, if there is one
DeviceGetForUpdate(table, deviceID) == {d \in table : d.ID = deviceID}

\* DeviceRepository.Update
DeviceUpdate(table, old, d) == (table \ {old}) \cup {d}

\* mutant: the row of the ID is removed whoever it belongs to
DeviceRemove_AnyUser(table, deviceID, userID) ==
    [ok |-> \E d \in table : d.ID = deviceID,
     devices |-> {d \in table : d.ID # deviceID}]

\* DeviceRepository.Remove: removes the device of the ID associated with
\* the user; not ok when the user has no such device
DeviceRemove(table, deviceID, userID) ==
    [ok |-> \E d \in table : d.ID = deviceID /\ d.UserID = userID,
     devices |-> {d \in table : ~(d.ID = deviceID /\ d.UserID = userID)}]

\* what a device handler leaves behind; the error's message goes out with
\* its first letter in upper case
DeviceOutcome(err, us, ds) == [err |-> err, users |-> us, devices |-> ds]

DeviceFaults == {"", "store"}

\* DELETE /api/v1/device/{deviceID} behind AuthMiddleware. One transaction:
\* the user row is locked, the device is removed, IsDeviceAllowed is set to
\* whether the user has devices left, the user is updated; an error of any
\* step rolls all of it back
Remove(header, cookie, deviceID, fault) ==
    LET auth == AuthMiddleware(header, cookie, TRUE)
        userID == auth.token.UserID
        removed == DeviceRemove(devices, deviceID, userID)
    IN IF auth.err # NoErr
       THEN DeviceOutcome(auth.err, users, devices)
       ELSE IF ~\E u \in users : u.ID = userID
       THEN DeviceOutcome(ErrUncoded("get for update"), users, devices)
       ELSE IF ~removed.ok
       THEN DeviceOutcome(ErrBadRequest("device does not exist"), users, devices)
       ELSE IF fault = "store"
       THEN DeviceOutcome(ErrUncoded("failed to save user"), users, devices)
       ELSE LET row == CHOOSE u \in users : u.ID = userID
                user == [row EXCEPT
                            !.IsDeviceAllowed = ByUserID(removed.devices, userID) # {}]
            IN DeviceOutcome(NoErr, UserUpdate(users, row, user), removed.devices)

\* PATCH /api/v1/device/{deviceID} {"name": name} behind AuthMiddleware. One
\* transaction: the device row is locked, it has to be the user's, its name
\* is set, the device is updated
Rename(header, cookie, deviceID, name, fault) ==
    LET auth == AuthMiddleware(header, cookie, TRUE)
        userID == auth.token.UserID
        rows == {d \in DeviceGetForUpdate(devices, deviceID) : d.UserID = userID}
    IN IF auth.err # NoErr
       THEN DeviceOutcome(auth.err, users, devices)
       ELSE IF rows = {}
       THEN DeviceOutcome(ErrBadRequest("device does not exist"), users, devices)
       ELSE IF fault = "store"
       THEN DeviceOutcome(ErrUncoded("failed to save device"), users, devices)
       ELSE LET row == CHOOSE d \in rows : TRUE
            IN DeviceOutcome(NoErr, users,
                             DeviceUpdate(devices, row, [row EXCEPT !.Name = name]))

\* the HTTP boundary: the status of an error's code, and the body's message,
\* which is the error's own with its first letter in upper case for an
\* error of the domain and a fixed one for any other error
Status(err) ==
    IF err = NoErr THEN 200
    ELSE IF err.code = "invalid_token" THEN 401
    ELSE IF err.code \in {"bad_request", "invalid_field"} THEN 400
    ELSE 500
Title(msg) == <<"title", msg>>
InternalMessage == <<"An internal error occurred">>
ErrorResponse(err) ==
    [status |-> Status(err),
     message |-> IF Status(err) = 500 THEN InternalMessage ELSE Title(err.msg)]

\* what a collaborator of a device handler answers with: no error, an error
\* of the domain, an error that is not of the domain
CollaboratorErrs == {NoErr, ErrBadRequest("no user found"), ErrUncoded("whoops")}

\* the user of the request as the handlers load it: the collaborator's error,
\* or the row of the ID, or sql.ErrNoRows
DeviceUser(userID, userErr) ==
    IF userErr # NoErr THEN [err |-> userErr, user |-> NilUser]
    ELSE LET found == ByIdentity("ID", userID, TRUE)
         IN [err |-> IF found.err = "" THEN NoErr ELSE ErrUncoded(found.err),
             user |-> found.user]

\* POST /api/v1/device behind AuthMiddleware: loads the user and asks the
\* WebAuthn service to begin a registration; nothing is stored
DeviceAPICreate(header, cookie, userErr, webauthnErr) ==
    LET auth == AuthMiddleware(header, cookie, TRUE)
        found == DeviceUser(auth.token.UserID, userErr)
    IN IF auth.err # NoErr THEN auth.err
       ELSE IF found.err # NoErr THEN found.err
       ELSE webauthnErr

\* GET /api/v1/device behind AuthMiddleware: the devices of the user
DeviceAPIList(header, cookie, deviceErr) ==
    LET auth == AuthMiddleware(header, cookie, TRUE)
    IN IF auth.err # NoErr THEN [err |-> auth.err, Devices |-> {}]
       ELSE IF deviceErr # NoErr THEN [err |-> deviceErr, Devices |-> {}]
       ELSE [err |-> NoErr, Devices |-> ByUserID(devices, auth.token.UserID)]

\* POST /api/v1/device/verify behind AuthMiddleware: loads the user, has the
\* WebAuthn service finish the registration, stores the device it answers
\* with and mints an authorized token
DeviceAPIVerify(header, cookie, userErr, webauthnErr, rnd) ==
    LET auth == AuthMiddleware(header, cookie, TRUE)
        found == DeviceUser(auth.token.UserID, userErr)
        minted == Create(found.user, JWTAuthorized, NilConf, rnd)
        failed(err, nt) == [err |-> err, devices |-> devices, dids |-> dids,
                            issued |-> issued, ulids |-> nt, token |-> NilToken]
    IN IF auth.err # NoErr THEN failed(auth.err, ulids)
       ELSE IF found.err # NoErr THEN failed(found.err, ulids)
       ELSE IF webauthnErr # NoErr THEN failed(webauthnErr, ulids)
       ELSE IF minted.err # NoErr THEN failed(minted.err, ulids + 1)
       ELSE [err |-> NoErr,
             devices |-> DeviceCreate(devices, NewDevice("", found.user.ID, "Device")),
             dids |-> dids + 1,
             issued |-> issued \cup {minted.token}, ulids |-> ulids + 1,
             token |-> minted.token]

\* the users of the device API: verified, with device MFA enabled
DeviceUsers ==
    {[u EXCEPT !.IsVerified = TRUE, !.IsDeviceAllowed = TRUE] : u \in {User1, User2}}

\* what a client of the device API presents: the header of a token it
\* holds or none, the ID of a device ever registered or of none, a new name
DeviceHeaders == {Bearer(Sign(t)) : t \in issued} \cup {NilHeader}
DeviceIDs == {"d" \o ToString(n) : n \in 1..MaxDevices} \cup {"does-not-exist"}
DeviceNames == {"Device 2"}

\* the tables as the device API finds them: the users are there, no device
\* is registered yet
InitDevice ==
    /\ now = 1
    /\ ledger = [id \in TokenIDs |-> 0]
    /\ ulids = 0
    /\ issued = {}
    /\ sealed = {}
    /\ users = DeviceUsers
    /\ uids = 2
    /\ logins = {}
    /\ outbox = <<>>
    /\ redeemed = {}
    /\ resp = NilResp
    /\ flight = NilFlight
    /\ devices = {}
    /\ dids = 0
    /\ messageQueue = NewQueue(0)
    /\ senders = {}
    /\ goroutines = <<>>
    /\ cancelled = {}
    /\ trace = NilTrace

\* a user logs in: an authorized token of the user's row
DeviceLogin(userID) ==
    \E u \in users :
        /\ u.ID = userID
        /\ CreateToken(u, JWTAuthorized, NilConf, SignupRnd, MaxTokens)

\* a device of the user is registered under the name "Device"
DeviceCreateCall(userID) ==
    /\ dids < MaxDevices
    /\ devices' = DeviceCreate(devices, NewDevice("", userID, "Device"))
    /\ dids' = dids + 1
    /\ UNCHANGED <<tokenVars, signupVars, msgVars>>

RemoveCall(header, cookie, deviceID, fault) ==
    /\ LET o == Remove(header, cookie, deviceID, fault)
       IN /\ users' = o.users
          /\ devices' = o.devices
          /\ resp' = [NilResp EXCEPT !.op = "Remove", !.err = o.err]
    /\ UNCHANGED <<tokenVars, uids, logins, outbox, redeemed, flight, dids, msgVars>>

RenameCall(header, cookie, deviceID, name, fault) ==
    /\ LET o == Rename(header, cookie, deviceID, name, fault)
       IN /\ users' = o.users
          /\ devices' = o.devices
          /\ resp' = [NilResp EXCEPT !.op = "Rename", !.err = o.err]
    /\ UNCHANGED <<tokenVars, uids, logins, outbox, redeemed, flight, dids, msgVars>>

DeviceAPICreateCall(header, cookie, userErr, webauthnErr) ==
    /\ resp' = [NilResp EXCEPT !.op = "DeviceCreate",
                               !.err = DeviceAPICreate(header, cookie, userErr, webauthnErr)]
    /\ UNCHANGED <<tokenVars, users, uids, logins, outbox, redeemed, flight, deviceVars, msgVars>>

DeviceAPIListCall(header, cookie, deviceErr) ==
    /\ resp' = [NilResp EXCEPT !.op = "DeviceList",
                               !.err = DeviceAPIList(header, cookie, deviceErr).err]
    /\ UNCHANGED <<tokenVars, users, uids, logins, outbox, redeemed, flight, deviceVars, msgVars>>

DeviceAPIVerifyCall(header, cookie, userErr, webauthnErr) ==
    /\ dids < MaxDevices
    /\ ulids < MaxTokens
    /\ Cardinality(issued) < MaxTokens
    /\ LET o == DeviceAPIVerify(header, cookie, userErr, webauthnErr, SignupRnd)
       IN /\ devices' = o.devices
          /\ dids' = o.dids
          /\ issued' = o.issued
          /\ ulids' = o.ulids
          /\ resp' = [NilResp EXCEPT !.op = "DeviceVerify", !.err = o.err,
                                     !.Token = Sign(o.token)]
    /\ UNCHANGED <<now, ledger, sealed, users, uids, logins, outbox, redeemed, flight,
                   msgVars>>

NextDevice ==
    \/ \E h \in DeviceHeaders, userErr \in CollaboratorErrs,
          webauthnErr \in CollaboratorErrs :
          \/ DeviceAPICreateCall(h, <<>>, userErr, webauthnErr)
          \/ DeviceAPIVerifyCall(h, <<>>, userErr, webauthnErr)
    \/ \E h \in DeviceHeaders, deviceErr \in CollaboratorErrs :
          DeviceAPIListCall(h, <<>>, deviceErr)
    \/ \E userID \in {"u1", "u2"} : DeviceLogin(userID)
    \/ \E userID \in {"u1", "u2"} : DeviceCreateCall(userID)
    \/ \E h \in DeviceHeaders, id \in DeviceIDs, fault \in DeviceFaults :
          RemoveCall(h, <<>>, id, fault)
    \/ \E h \in DeviceHeaders, id \in DeviceIDs, name \in DeviceNames,
          fault \in DeviceFaults : RenameCall(h, <<>>, id, name, fault)

SpecDevice == InitDevice /\ [][NextDevice]_vars

---------------------------------------------------------------------------
(* The message repository (internal/msgrepo/service.go): Publish sends on  *)
(* the channel messageQueue; every call of Recent starts a goroutine that  *)
(* waits for its context to be done and then closes the channel. The       *)
(* messages are numbered in the order of the Publish calls. A panic in the *)
(* goroutine of Recent, which recovers nothing, ends the process; a panic  *)
(* in Publish ends it unless the caller recovers, and the callers are not  *)
(* part of the package: both outcomes are taken.                           *)

MaxMessages == 2
MaxRecents == 2
MaxQueue == 1

Contexts == 1..MaxRecents

SendOnClosed == "send on closed channel"
CloseOfClosed == "close of closed channel"

\* a send that does not block: the message goes to the end of the buffer
ChanSend(q, msg) == [q EXCEPT !.buf = Append(q.buf, msg)]

\* Publish(ctx, msg): s.messageQueue <- msg. On a closed channel the send
\* panics; with room in the buffer it completes and Publish returns nil;
\* otherwise the caller blocks in the send
Publish(msg) ==
    /\ ~trace.crashed
    /\ msg = trace.calls + 1
    /\ msg <= MaxMessages
    /\ IF messageQueue.closed
       THEN /\ \E recovered \in BOOLEAN :
                  trace' = [trace EXCEPT !.calls = msg,
                                         !.panics = @ \cup {SendOnClosed},
                                         !.crashed = ~recovered]
            /\ UNCHANGED <<messageQueue, senders>>
       ELSE IF Len(messageQueue.buf) < messageQueue.cap
       THEN /\ messageQueue' = ChanSend(messageQueue, msg)
            /\ trace' = [trace EXCEPT !.calls = msg, !.published = Append(@, msg)]
            /\ UNCHANGED senders
       ELSE /\ senders' = senders \cup {msg}
            /\ trace' = [trace EXCEPT !.calls = msg]
            /\ UNCHANGED messageQueue
    /\ UNCHANGED <<goroutines, cancelled>>
    /\ UNCHANGED <<tokenVars, signupVars, deviceVars>>

\* the consumer receives from the channel Recent returned. With messages in
\* the buffer it takes the head, and a Publish blocked in its send, if there
\* is one, puts its message in the room made and returns nil; with an empty
\* buffer it takes the message of a blocked Publish, which returns nil. The
\* buffer of a closed channel is still received from
Receive ==
    /\ ~trace.crashed
    /\ goroutines # <<>>
    /\ IF messageQueue.buf # <<>> /\ senders = {}
       THEN /\ messageQueue' = [messageQueue EXCEPT !.buf = Tail(@)]
            /\ trace' = [trace EXCEPT !.received = Append(@, Head(messageQueue.buf))]
            /\ UNCHANGED senders
       ELSE IF messageQueue.buf # <<>>
       THEN \E msg \in senders :
               /\ messageQueue' = ChanSend([messageQueue EXCEPT !.buf = Tail(@)], msg)
               /\ senders' = senders \ {msg}
               /\ trace' = [trace EXCEPT !.published = Append(@, msg),
                                         !.received = Append(@, Head(messageQueue.buf))]
       ELSE \E msg \in senders :
               /\ senders' = senders \ {msg}
               /\ trace' = [trace EXCEPT !.published = Append(@, msg),
                                         !.received = Append(@, msg)]
               /\ UNCHANGED messageQueue
    /\ UNCHANGED <<goroutines, cancelled>>
    /\ UNCHANGED <<tokenVars, signupVars, deviceVars>>

\* Recent(ctx): starts the goroutine and returns s.messageQueue
Recent(ctx) ==
    /\ ~trace.crashed
    /\ Len(goroutines) < MaxRecents
    /\ goroutines' = Append(goroutines, [ctx |-> ctx, pc |-> "waiting"])
    /\ UNCHANGED <<messageQueue, senders, cancelled, trace>>
    /\ UNCHANGED <<tokenVars, signupVars, deviceVars>>

\* the context is cancelled by whoever holds its cancel function
Cancel(ctx) ==
    /\ ~trace.crashed
    /\ ctx \notin cancelled
    /\ cancelled' = cancelled \cup {ctx}
    /\ UNCHANGED <<messageQueue, senders, goroutines, trace>>
    /\ UNCHANGED <<tokenVars, signupVars, deviceVars>>

\* the goroutine of Recent past <-ctx.Done(): errc takes ctx.Err(), then the
\* deferred close(s.messageQueue) runs. Closing a closed channel panics;
\* closing an open one makes every send blocked on it panic
RecentDone(g) ==
    /\ ~trace.crashed
    /\ g \in 1..Len(goroutines)
    /\ goroutines[g].pc = "waiting"
    /\ goroutines[g].ctx \in cancelled
    /\ IF messageQueue.closed
       THEN /\ goroutines' = [goroutines EXCEPT ![g].pc = "panicked"]
            /\ trace' = [trace EXCEPT !.closes = @ + 1,
                                      !.panics = @ \cup {CloseOfClosed},
                                      !.crashed = TRUE]
            /\ UNCHANGED <<messageQueue, senders>>
       ELSE /\ goroutines' = [goroutines EXCEPT ![g].pc = "exited"]
            /\ messageQueue' = [messageQueue EXCEPT !.closed = TRUE]
            /\ senders' = {}
            /\ \E recovered \in BOOLEAN :
                  trace' = [trace EXCEPT
                               !.closes = @ + 1,
                               !.panics = IF senders # {} THEN @ \cup {SendOnClosed}
                                          ELSE @,
                               !.crashed = senders # {} /\ ~recovered]
    /\ UNCHANGED cancelled
    /\ UNCHANGED <<tokenVars, signupVars, deviceVars>>

\* a repository made with a channel of any capacity, unbuffered included
InitMsg ==
    /\ now = 1
    /\ ledger = [id \in TokenIDs |-> 0]
    /\ ulids = 0
    /\ issued = {}
    /\ sealed = {}
    /\ users = {}
    /\ uids = 0
    /\ logins = {}
    /\ outbox = <<>>
    /\ redeemed = {}
    /\ resp = NilResp
    /\ flight = NilFlight
    /\ devices = {}
    /\ dids = 0
    /\ messageQueue \in {NewQueue(c) : c \in 0..MaxQueue}
    /\ senders = {}
    /\ goroutines = <<>>
    /\ cancelled = {}
    /\ trace = NilTrace

NextMsg ==
    \/ \E msg \in 1..MaxMessages : Publish(msg)
    \/ Receive
    \/ \E ctx \in Contexts : Recent(ctx)
    \/ \E ctx \in Contexts : Cancel(ctx)
    \/ \E g \in 1..MaxRecents : RecentDone(g)

SpecMsg == InitMsg /\ [][NextMsg]_vars

\* the same with a consumer that keeps receiving
SpecMsgLive == InitMsg /\ [][NextMsg]_vars /\ WF_vars(Receive)

---------------------------------------------------------------------------
(* Tokens minted for users with every combination of enabled second       *)
(* factors.                                                                *)

\* the four flags genTFAOptions reads, and the users that have them set in
\* every combination, the ID telling which
TFAFlags == {"IsPhoneOTPAllowed", "IsEmailOTPAllowed", "IsTOTPAllowed", "IsDeviceAllowed"}
FlagID(f) ==
    "f" \o (IF f["IsPhoneOTPAllowed"] THEN "1" ELSE "0")
        \o (IF f["IsEmailOTPAllowed"] THEN "1" ELSE "0")
        \o (IF f["IsTOTPAllowed"] THEN "1" ELSE "0")
        \o (IF f["IsDeviceAllowed"] THEN "1" ELSE "0")
FlagUsers ==
    {[NewUser(FlagID(f), "a@x", "555", "pw") EXCEPT
         !.IsPhoneOTPAllowed = f["IsPhoneOTPAllowed"],
         !.IsEmailOTPAllowed = f["IsEmailOTPAllowed"],
         !.IsTOTPAllowed = f["IsTOTPAllowed"],
         !.IsDeviceAllowed = f["IsDeviceAllowed"]] : f \in [TFAFlags -> BOOLEAN]}

NextTFA ==
    \/ Tick
    \/ \E u \in FlagUsers, s \in TokenStates, c \in RandomStrings :
          CreateToken(u, s, NilConf, [clientID |-> c, otp |-> "r1", refresh |-> "r1"], 1)
    \/ \E old \in issued, u \in FlagUsers :
          u.ID = old.UserID /\ RefreshToken(u, JWTAuthorized, old)

SpecTFA == Init /\ [][NextTFA]_vars

---------------------------------------------------------------------------
(* The signup API at one instant, by email and by phone: what each request *)
(* hands to the messaging service.                                         *)

\* the requests a client can submit: the ones of SpecSignup and one by phone
OTPRequests == SignupRequests \cup {SignupRequest(Phone, "555", "pw")}

NextOutbox ==
    \/ \E req \in OTPRequests, fault \in SignUpFaults :
          SignUpCall(req, SignupRnd, fault)
    \/ \E h \in SignupHeaders, code \in Codes, fault \in VerifyFaults :
          \E c \in CookiesWith(h) : VerifyCall(h, c, code, SignupRnd, fault)

SpecOutbox == Init /\ [][NextOutbox]_vars

---------------------------------------------------------------------------
(* One identity signing up again and again and verifying, over time: the   *)
(* codes expire, the rows are re-created, the requests fail at every step. *)

RetryRequests == {SignupRequest(Email, "a@x", p) : p \in {"pw", "pw2"}}

NextRetry ==
    \/ Tick
    \/ \E req \in RetryRequests, fault \in SignUpFaults \cup LateFaults :
          SignUpCall(req, SignupRnd, fault)
    \/ \E h \in SignupHeaders, code \in Codes, fault \in VerifyFaults :
          \E c \in CookiesWith(h) : VerifyCall(h, c, code, SignupRnd, fault)

SpecRetry == Init /\ [][NextRetry]_vars

---------------------------------------------------------------------------
(* Properties of the token engine *)

\* the header a client was given with token t
HeaderOf(t) == Bearer(Sign(t))

\* the token is within its expiry; its ID is in the ledger
Unexpired(t) == now <= t.ExpiresAt
Revoked(t) == LedgerHit(t.Id)

\* the cookie is the one issued when the token, or the token it was
\* refreshed from, was minted
IssuedCookie(t, c) ==
    \E t0 \in issued : t0.ClientID # <<>> /\ t0.ClientID = c
                       /\ t0.ClientIDHash = t.ClientIDHash

\* C1: while the ledger holds the ID of a token, every Validate of a header
\* made of that token, with whatever cookie, fails with the code
\* InvalidToken (the ledger answering)
C1_RevokedIsInvalidToken ==
    \A t \in issued : \A h \in HeadersOf(t), c \in Cookies :
        Revoked(t) => Validate(h, c, TRUE).err.code = "invalid_token"

\* C1, as the code has it: a revoked token is never accepted, and the code
\* is InvalidToken whenever the cookie is base64url text
C1_RevokedIsRejected ==
    \A t \in issued : \A h \in HeadersOf(t), c \in Cookies, dbOk \in BOOLEAN :
        Revoked(t) =>
            /\ Validate(h, c, dbOk).err # NoErr
            /\ Validate(h, c, dbOk).token = NilToken
            /\ DecodeOK(c) /\ dbOk => Validate(h, c, dbOk).err.code = "invalid_token"

\* a revoked token is presented with its signature, expiry and cookie right
C1_Witness ==
    \E t \in issued :
        /\ Revoked(t) /\ Unexpired(t) /\ IssuedCookie(t, t.ClientID)
        /\ Validate(HeaderOf(t), t.ClientID, TRUE).err = ErrInvalidToken("token is revoked")

\* C2: past a token's expiry every Validate of a header made of it fails
\* with the code InvalidToken, whatever the cookie, the ledger's content and
\* the ledger's answer
C2_ExpiredIsInvalidToken ==
    \A t \in issued : \A h \in HeadersOf(t), c \in Cookies, dbOk \in BOOLEAN :
        now > t.ExpiresAt =>
            /\ Validate(h, c, dbOk).err.code = "invalid_token"
            /\ Validate(h, c, dbOk).token = NilToken

\* a token that validates up to its expiry is presented after it, with the
\* right cookie and an empty ledger
C2_Witness ==
    \E t \in issued :
        /\ now > t.ExpiresAt /\ ~Revoked(t) /\ IssuedCookie(t, t.ClientID)
        /\ t.UserID # ""
        /\ Validate(HeaderOf(t), t.ClientID, TRUE).err = ErrInvalidToken("token is invalid")

\* C3, as claimed: a cookie that decodes to a string whose digest is not the
\* token's client-id-hash makes Validate fail with the code InvalidToken, and
\* Validate returns a claim only for the cookie issued at mint
C3_CookieBinding ==
    \A t \in issued : \A c \in Cookies, dbOk \in BOOLEAN :
        /\ (DecodeOK(c) /\ Hash(DecodeString(c)) # t.ClientIDHash)
              => Validate(HeaderOf(t), c, dbOk).err.code = "invalid_token"
        /\ Validate(HeaderOf(t), c, dbOk).err = NoErr => IssuedCookie(t, c)

\* the cookie decodes to the bytes of the one issued when the token, or the
\* token it was refreshed from, was minted
IssuedClientID(t, c) ==
    \E t0 \in issued : /\ t0.ClientID # <<>>
                       /\ DecodeOK(c) /\ c # <<>>
                       /\ DecodeString(c) = DecodeString(t0.ClientID)
                       /\ t0.ClientIDHash = t.ClientIDHash

\* C3, as the code has it: a cookie that decodes to a string whose digest is
\* not the token's client-id-hash makes Validate fail with the code
\* InvalidToken, and Validate returns a claim only for a cookie that decodes
\* to the client ID generated at mint, which the issued cookie does and so
\* does the issued cookie with a line break in it
C3_ClientIDBinding ==
    \A t \in issued : \A c \in Cookies, dbOk \in BOOLEAN :
        /\ (DecodeOK(c) /\ Hash(DecodeString(c)) # t.ClientIDHash)
              => Validate(HeaderOf(t), c, dbOk).err.code = "invalid_token"
        /\ Validate(HeaderOf(t), c, dbOk).err = NoErr => IssuedClientID(t, c)
        /\ (Validate(HeaderOf(t), t.ClientID, dbOk).err = NoErr /\ t.ClientID # <<>>)
              => Validate(HeaderOf(t), LineBroken(t.ClientID), dbOk).err = NoErr

\* a good token is presented with the cookie of another token
C3_Witness ==
    \E t \in issued, t2 \in issued :
        /\ Unexpired(t) /\ ~Revoked(t) /\ t.UserID # ""
        /\ t2.ClientID # <<>> /\ t2.ClientIDHash # t.ClientIDHash
        /\ Validate(HeaderOf(t), t2.ClientID, TRUE).err
              = ErrInvalidToken("token source is invalid")
        /\ \E c \in Cookies : Validate(HeaderOf(t), c, TRUE).err = NoErr
        /\ Validate(HeaderOf(t), LineBroken(t.ClientID), TRUE).err = NoErr

\* C4: a token minted for a user with an ID validates, under the cookie
\* returned at mint, while it is unexpired and its ID is not in the ledger
\* (the ledger answering), and the claim returned has the token's ID, user
\* ID, email, phone, state, hashes and tfa-options
C4_RoundTrip ==
    \A t \in issued :
        (t.UserID # "" /\ t.ClientID # <<>> /\ Unexpired(t) /\ ~Revoked(t)) =>
            LET r == Validate(HeaderOf(t), t.ClientID, TRUE)
            IN /\ r.err = NoErr
               /\ r.token.Id = t.Id
               /\ r.token.UserID = t.UserID
               /\ r.token.Email = t.Email
               /\ r.token.Phone = t.Phone
               /\ r.token.State = t.State
               /\ r.token.ClientIDHash = t.ClientIDHash
               /\ r.token.CodeHash = t.CodeHash
               /\ r.token.RefreshTokenHash = t.RefreshTokenHash
               /\ r.token.TFAOptions = t.TFAOptions

\* a token with an OTP envelope, at the last tick of its life
C4_Witness ==
    \E t \in issued :
        /\ t.UserID # "" /\ t.CodeHash # <<>> /\ now = t.ExpiresAt /\ ~Revoked(t)
        /\ Validate(HeaderOf(t), t.ClientID, TRUE).token.Email = "a@x"

C7_OneError ==
    \A t1 \in issued, t2 \in issued : \A r1 \in RefreshTokens, r2 \in RefreshTokens :
        LET e1 == Refreshable(t1, r1)
            e2 == Refreshable(t2, r2)
        IN (e1 # NoErr /\ e2 # NoErr) => (e1.code = "invalid_token" /\ e1 = e2)

\* C8: once an ID is revoked for at least what is left of the life of the
\* token presented, no token carrying the ID is accepted
C8_NoResurrection ==
    \A t \in issued : \A c \in Cookies, dbOk \in BOOLEAN :
        t.Id \in sealed => Validate(HeaderOf(t), c, dbOk).err # NoErr

---------------------------------------------------------------------------
(* Properties of the signup API *)

\* the identity of the request is that of a verified user, of no user
VerifiedIdentity(req) ==
    \E u \in users : u[UserAttribute(req)] = req.Identity /\ u.IsVerified
UnusedIdentity(req) ==
    \A u \in users : u[UserAttribute(req)] # req.Identity

\* what a client sees of a response
Public(r) ==
    [status |-> Status(r.err), code |-> r.err.code,
     token |-> r.Token # Sign(NilToken), cookie |-> r.Cookie # <<>>]

\* C5: a Signup-verify that presents the pre-authorized token and the code
\* of a Signup-verify that has succeeded fails, and with it no token is
\* minted and no LoginHistory row is added
C5_ReplayFailsClosed ==
    [][resp'.replay =>
          (resp'.err # NoErr /\ issued' = issued /\ logins' = logins)]_vars

\* C9: two SignUp requests of the same type and password, one for the
\* identity of a verified user and one for an identity of no user, meeting
\* the same collaborators, have the same public response
C9_NonEnumeration ==
    \A q1 \in SignupRequests, q2 \in SignupRequests, fault \in SignUpFaults :
        (q1.Type = q2.Type /\ q1.Password = q2.Password
         /\ VerifiedIdentity(q1) /\ UnusedIdentity(q2)) =>
            Public(SignUp(q1, SignupRnd, fault).resp)
               = Public(SignUp(q2, SignupRnd, fault).resp)

\* C10: SignUp for the identity of a user that is found and verified returns
\* BadRequest("cannot register user"), leaves the user table as it is, mints
\* no token, sets no cookie and sends no message
C10_VerifiedIsRefused ==
    \A req \in SignupRequests, fault \in SignUpFaults \ {"lookup"} :
        VerifiedIdentity(req) =>
            LET o == SignUp(req, SignupRnd, fault)
            IN /\ o.resp.err = ErrBadRequest("cannot register user")
               /\ o.users = users /\ o.uids = uids
               /\ o.issued = issued /\ o.ulids = ulids
               /\ o.resp.Token = Sign(NilToken)
               /\ o.resp.Cookie = <<>>
               /\ o.outbox = outbox

\* SignUp has answered a request for the identity of a user that Verify has
\* marked verified
C10_Witness ==
    /\ resp.op = "SignUp"
    /\ resp.err = ErrBadRequest("cannot register user")
    /\ \E u \in users : u.IsVerified
    /\ \E l \in logins : \E u \in users : l.UserID = u.ID

\* the row that has the ID is verified
VerifiedRow(id) == \E u \in users : u.ID = id /\ u.IsVerified

\* C11: a user row that is verified is there, verified, after every step of
\* every SignUp and Signup-verify
C11_VerifiedStays ==
    [][\A u \in users : u.IsVerified =>
          \E v \in users' : v.ID = u.ID /\ v.Email = u.Email /\ v.IsVerified]_vars

\* a SignUp has ended for an identity whose user was verified when it was
\* looked up
C11_Witness ==
    /\ flight.su.pc = "idle"
    /\ resp.op = "SignUp"
    /\ isUserVerified(flight.su.found.user, flight.su.found.err)
    /\ VerifiedRow(flight.su.found.user.ID)

\* C12: a SignUp that has looked up its user, whatever Signup-verify has
\* done since, leaves a row that is verified by now as it is, and fails
\* with BadRequest (with the error of the store if the store fails)
C12_VerifiedNotOverwritten ==
    flight.su.pc = "looked" =>
        \A fault \in {"", "store", "send"} :
            LET found == flight.su.found
                o == SignUpFrom(found, flight.su.req, SignupRnd, fault)
            IN (found.err = "" /\ VerifiedRow(found.user.ID)) =>
                  /\ o.users = users
                  /\ o.resp.err # NoErr
                  /\ fault # "store" =>
                        o.resp.err = ErrBadRequest("cannot register user")

\* a SignUp retry that found its user unverified has been refused, the
\* user having been verified before the retry took the row lock
C12_Witness ==
    /\ flight.su.pc = "idle"
    /\ resp.op = "SignUp"
    /\ resp.err = ErrBadRequest("cannot register user")
    /\ isUserNotVerified(flight.su.found.user, flight.su.found.err)
    /\ VerifiedRow(flight.su.found.user.ID)
    /\ \E u \in users : u.ID = flight.su.found.user.ID
                        /\ u.Password # flight.su.req.Password

\* C13: SignUp for an identity whose user is unverified succeeds; the row
\* of the identity then has the password submitted, an ID it did not have
\* and IsVerified false, no row has the old ID, and the token returned is
\* pre-authorized for the ID of the row
C13_RetryReCreates ==
    \A req \in RaceRequests :
        LET found == ByIdentity(UserAttribute(req), req.Identity, TRUE)
            o == SignUp(req, SignupRnd, "")
        IN isUserNotVerified(found.user, found.err) =>
              /\ o.resp.err = NoErr
              /\ \A row \in o.users : row.ID # found.user.ID
              /\ \E row \in o.users :
                    /\ row.Email = req.Identity
                    /\ row.Password = req.Password
                    /\ ~row.IsVerified
                    /\ row.ID \notin {u.ID : u \in users}
                    /\ o.resp.Token.claims.UserID = row.ID
                    /\ o.resp.Token.claims.State = JWTPreAuthorized

\* a SignUp retry with another password has re-created the row
C13_Witness ==
    /\ flight.su.pc = "idle"
    /\ resp.op = "SignUp" /\ resp.err = NoErr
    /\ isUserNotVerified(flight.su.found.user, flight.su.found.err)
    /\ flight.su.found.user.Password # flight.su.req.Password
    /\ \E row \in users : /\ row.Password = flight.su.req.Password
                          /\ row.ID = resp.Token.claims.UserID
                          /\ row.ID # flight.su.found.user.ID

\* C14: when the last response is a success of Signup-verify, the token in
\* it is authorized, the row of the token's user is verified, a
\* LoginHistory row has the token's ID and user, and the response has the
\* refresh token the token's refresh-token-hash is the digest of
C14_VerifySuccess ==
    (resp.op = "Verify" /\ resp.err = NoErr) =>
        LET t == resp.Token.claims
        IN /\ t.State = JWTAuthorized
           /\ VerifiedRow(t.UserID)
           /\ \E l \in logins : l.TokenID = t.Id /\ l.UserID = t.UserID
           /\ resp.RefreshToken # <<>>
           /\ isHashValid(DecodeString(resp.RefreshToken), t.RefreshTokenHash)
           /\ resp.ClientID # <<>>

\* a Signup-verify that was suspended at its lookup has succeeded
C14_Witness ==
    /\ resp.op = "Verify" /\ resp.err = NoErr
    /\ flight.vf.pc = "idle"
    /\ flight.vf.found.user.ID = resp.Token.claims.UserID
    /\ ~flight.vf.found.user.IsVerified

\* C15: Signup-verify with a pre-authorized token the middleware admits,
\* whose user ID is the ID of no row, fails with the code InvalidToken
C15_NoUserIsInvalidToken ==
    \A t \in issued : \A code \in Codes :
        (/\ t.State = JWTPreAuthorized
         /\ AuthMiddleware(Bearer(Sign(t)), t.ClientID, TRUE).err = NoErr
         /\ \A u \in users : u.ID # t.UserID) =>
            Verify(Bearer(Sign(t)), t.ClientID, code, SignupRnd, "").resp.err.code
               = "invalid_token"

\* C16: with no Authorization header the request ends with InvalidToken
\* "user is not authenticated"; with an error of Validate it ends with that
\* error; in both cases the handler leaves nothing behind; and the handler
\* runs only on a header Validate accepts, with the user ID of its token
C16_MiddlewareGuards ==
    \A h \in Headers \cup {NilHeader} :
        /\ \A c \in Cookies, dbOk \in BOOLEAN :
              LET a == AuthMiddleware(h, c, dbOk)
              IN /\ h = NilHeader =>
                       a.err = ErrInvalidToken("user is not authenticated")
                 /\ (h # NilHeader /\ ValidateSigned(h, dbOk).err # NoErr) =>
                       a.err = ValidateSigned(h, dbOk).err
                 /\ a.err = NoErr =>
                       /\ h # NilHeader
                       /\ ValidateSigned(h, dbOk).err = NoErr
                       /\ a.token.UserID = ValidateSigned(h, dbOk).token.UserID
                       /\ a.token.UserID = h.jwt.claims.UserID
        /\ \A c \in CookiesWith(h), code \in Codes, fault \in VerifyFaults :
              LET a == AuthMiddleware(h, c, TRUE)
                  o == Verify(h, c, code, SignupRnd, fault)
              IN a.err # NoErr =>
                    /\ o.resp.err = a.err
                    /\ o.resp.Token = Sign(NilToken) /\ o.resp.Cookie = <<>>
                    /\ o.users = users /\ o.uids = uids
                    /\ o.issued = issued /\ o.ulids = ulids
                    /\ o.logins = logins /\ o.outbox = outbox

\* a Signup-verify without a header has been refused while a token is out
\* that Validate accepts
C16_Witness ==
    /\ resp.op = "Verify"
    /\ resp.err = ErrInvalidToken("user is not authenticated")
    /\ \E t \in issued : ValidateSigned(Bearer(Sign(t)), TRUE).err = NoErr

\* C17: a request with the header of a token Validate accepts and with a
\* cookie that is not the one issued for the token (none, another token's,
\* one of the client's making) is ended by the middleware with the code
\* InvalidToken
C17_CookieRequired ==
    \A t \in issued : \A c \in Cookies :
        (ValidateSigned(HeaderOf(t), TRUE).err = NoErr /\ ~IssuedCookie(t, c)) =>
            AuthMiddleware(HeaderOf(t), c, TRUE).err.code = "invalid_token"

\* C18: the middleware admits no request whose token is pre-authorized to
\* the handler of a resource endpoint
C18_PreAuthorizedNotAdmitted ==
    \A t \in issued : \A c \in SignupCookies :
        t.State = JWTPreAuthorized =>
            AuthMiddleware(HeaderOf(t), c, TRUE).err # NoErr

\* the user a request's token speaks for
UserOf(header) == header.jwt.claims.UserID

\* C19: in every state of the device API, a Device-remove that succeeds
\* leaves the requesting user's row with IsDeviceAllowed true if and only if
\* the user has a device left; the device removed is gone and the devices of
\* the other users are untouched
C19_RemoveRecomputes ==
    \A h \in DeviceHeaders : \A id \in DeviceIDs :
        LET o == Remove(h, <<>>, id, "")
        IN o.err = NoErr =>
              /\ \E u \in o.users : u.ID = UserOf(h)
              /\ \A u \in o.users :
                    u.ID = UserOf(h) =>
                        (u.IsDeviceAllowed <=>
                            \E d \in o.devices : d.UserID = UserOf(h))
              /\ o.devices = {d \in devices : d.ID # id}
              /\ \A d \in devices \ o.devices : d.UserID = UserOf(h)

\* a user's last device has been removed with another user's device there:
\* the flag is off for the one with no device, on for the other
C19_Witness ==
    /\ resp.op = "Remove"
    /\ resp.err = NoErr
    /\ \E u \in users : ~u.IsDeviceAllowed /\ ByUserID(devices, u.ID) = {}
    /\ \E u \in users : u.IsDeviceAllowed /\ ByUserID(devices, u.ID) # {}

Admitted(h) == AuthMiddleware(h, <<>>, TRUE).err = NoErr

\* the admitted request's user has a row
Loaded(h) == Admitted(h) /\ \E u \in users : u.ID = UserOf(h)

\* the response to an error is 500 with the fixed message, the error's own
\* text left out
IsInternal(err) ==
    /\ ErrorResponse(err).status = 500
    /\ ErrorResponse(err).message = <<"An internal error occurred">>
    /\ \A i \in DOMAIN ErrorResponse(err).message :
          ErrorResponse(err).message[i] # err.msg

\* C21: in every state of the device API and for every request, an error of
\* the user repository, the device repository or the WebAuthn service that is
\* not of the domain is answered with 500 and the fixed message "An internal
\* error occurred" without the error's text, and so is a failed identity
\* check of SignUp; an error of the domain keeps its code and message: no
\* header is 401 "User is not authenticated", a BadRequest of a collaborator
\* 400 with its message
C21_InternalIsOpaque ==
    \A h \in DeviceHeaders : \A e1 \in CollaboratorErrs : \A e2 \in CollaboratorErrs :
        LET create == DeviceAPICreate(h, <<>>, e1, e2)
            verify == DeviceAPIVerify(h, <<>>, e1, e2, SignupRnd).err
            list == DeviceAPIList(h, <<>>, e1).err
            unauthenticated == [status |-> 401,
                                message |-> Title("user is not authenticated")]
            noUser == [status |-> 400, message |-> Title("no user found")]
        IN /\ h = NilHeader =>
                 /\ ErrorResponse(create) = unauthenticated
                 /\ ErrorResponse(verify) = unauthenticated
                 /\ ErrorResponse(list) = unauthenticated
           /\ (Admitted(h) /\ e1 = ErrUncoded("whoops")) =>
                 IsInternal(create) /\ IsInternal(verify) /\ IsInternal(list)
           /\ (Admitted(h) /\ e1 = ErrBadRequest("no user found")) =>
                 /\ ErrorResponse(create) = noUser
                 /\ ErrorResponse(verify) = noUser
                 /\ ErrorResponse(list) = noUser
           /\ (Loaded(h) /\ e1 = NoErr /\ e2 = ErrUncoded("whoops")) =>
                 IsInternal(create) /\ IsInternal(verify)
           /\ (Loaded(h) /\ e1 = NoErr /\ e2 = ErrBadRequest("no user found")) =>
                 ErrorResponse(create) = noUser /\ ErrorResponse(verify) = noUser
           /\ \A req \in SignupRequests :
                 IsInternal(SignUp(req, SignupRnd, "lookup").resp.err)

\* a listing of devices has met an error of the device repository that is
\* not of the domain, with devices registered through the API
C21_Witness ==
    /\ resp.op = "DeviceList"
    /\ resp.err = ErrUncoded("whoops")
    /\ devices # {}
    /\ issued # {}

\* C22: the code and the envelope that OTPCode made for a token validate
\* together exactly while the time is before the envelope's expires-at,
\* whatever the address and the method; every other code fails with
\* InvalidField against the envelope, at any time
C22_OTPRoundTrip ==
    /\ \A t \in issued :
          t.CodeHash # <<>> =>
              /\ ValidateOTP(t.Code, t.CodeHash) = NoErr
                    <=> now < FromOTPHash(t.CodeHash).ExpiresAt
              /\ ValidateOTP(t.Code, t.CodeHash) \in {NoErr, ErrInvalidField("otp")}
              /\ \A code \in (RandomStrings \cup {""}) \ {t.Code} :
                    ValidateOTP(code, t.CodeHash) = ErrInvalidField("otp")
    /\ \A code \in RandomStrings, address \in {"a@x", "555"}, method \in {Email, Phone} :
          LET o == OTPCode(code, address, method)
          IN /\ ValidateOTP(o.code, o.hash) = NoErr
             /\ FromOTPHash(o.hash).ExpiresAt = now + otpExpiry

\* a code sent to a phone has outlived its envelope
C22_Witness ==
    \E t \in issued :
        /\ t.CodeHash # <<>>
        /\ FromOTPHash(t.CodeHash).DeliveryMethod = Phone
        /\ now >= FromOTPHash(t.CodeHash).ExpiresAt
        /\ ValidateOTP(t.Code, t.CodeHash) = ErrInvalidField("otp")

\* C23: WebAuthn validation refuses every credential whose signature counter
\* is not above the SignCount stored for the device it names
C23_CloneDetection ==
    \A d \in devices : \A u \in users : \A n \in 0..1 :
        (u.ID = d.UserID /\ n <= d.SignCount) =>
            WebAuthnValidate(u, Credential(d.ID, n)) # NoErr

\* C24: Create with WithRefreshableToken(old), for any user, state and
\* outcome of the random source, succeeds with a token that has the ID, the
\* client-ID hash and the refresh-token hash of old, expires at now + the
\* token TTL, and has no client ID and no refresh token in plain text
C24_RefreshCarriesForward ==
    \A old \in issued : \A u \in {User1, User2} : \A state \in TokenStates :
      \A c \in RandomStrings : \A r \in RandomStrings :
        LET o == Create(u, state, WithRefreshableToken(NilConf, old),
                        [clientID |-> c, otp |-> "r1", refresh |-> r])
        IN /\ o.err = NoErr
           /\ o.token.Id = old.Id
           /\ o.token.ClientIDHash = old.ClientIDHash
           /\ o.token.RefreshTokenHash = old.RefreshTokenHash
           /\ o.token.ExpiresAt = now + tokenExpiry
           /\ o.token.ClientID = <<>>
           /\ o.token.RefreshToken = <<>>

\* a token and a later refresh of it are both held
C24_Witness ==
    \E old \in issued : \E t \in issued :
        /\ old.ClientID # <<>>
        /\ t.ClientID = <<>>
        /\ t.Id = old.Id
        /\ t.ExpiresAt > old.ExpiresAt
        /\ t.RefreshTokenHash = old.RefreshTokenHash

\* users with every combination of addresses and OTP channels allowed
OTPUsers ==
    {[NewUser("u1", email, phone, "pw") EXCEPT !.IsPhoneOTPAllowed = p,
                                                 !.IsEmailOTPAllowed = e] :
        email \in {"", "a@x"}, phone \in {"", "555"}, p \in BOOLEAN, e \in BOOLEAN}

\* the options of a Create that asks for an OTP, or for none
OTPConfs ==
    MintConfs \cup {WithOTPAddress(WithOTPDeliveryMethod(NilConf, Email), "c@x")}

\* the address the OTP of a Create goes to: the explicit one, else the
\* user's phone or email if the method's channel is allowed, else none
DeliveryAddress(conf, user) ==
    IF conf.DeliveryAddress # "" THEN conf.DeliveryAddress
    ELSE IF conf.DeliveryMethod = Phone /\ user.IsPhoneOTPAllowed THEN user.Phone
    ELSE IF conf.DeliveryMethod = Email /\ user.IsEmailOTPAllowed THEN user.Email
    ELSE ""

\* C25: for every user, state, options and outcome of the random source,
\* a Create without delivery method returns a token with empty code and
\* code hash; one with a delivery method and no address to deliver to fails
\* with InvalidField and returns no token; any other returns a token whose
\* envelope names the address and the method and whose code is the generated
\* one
C25_DeliveryAddress ==
    \A u \in OTPUsers : \A state \in TokenStates : \A conf \in OTPConfs :
      \A code \in RandomStrings :
        LET o == Create(u, state, conf, [clientID |-> "r1", otp |-> code, refresh |-> "r1"])
        IN IF conf.DeliveryMethod = ""
           THEN o.err = NoErr /\ o.token.Code = "" /\ o.token.CodeHash = <<>>
           ELSE IF DeliveryAddress(conf, u) = ""
           THEN o.err.code = "invalid_field" /\ o.token = NilToken
           ELSE /\ o.err = NoErr
                /\ o.token.Code = code
                /\ FromOTPHash(o.token.CodeHash).Address = DeliveryAddress(conf, u)
                /\ FromOTPHash(o.token.CodeHash).DeliveryMethod = conf.DeliveryMethod
                /\ ValidateOTP(code, o.token.CodeHash) = NoErr

\* a Create has failed: a ULID is drawn and no token is held
C25_Witness ==
    /\ ulids = 1
    /\ issued = {}
    /\ \E u \in {User1, User2, Anonymous} : \E conf \in MintConfs :
          Create(u, JWTPreAuthorized, conf,
                 [clientID |-> "r1", otp |-> "r1", refresh |-> "r1"]).err
             = ErrInvalidField("delivery address is not valid")

\* C26: in every state of the signup API, no response to a SignUp carries a
\* refresh token, a response of either handler that carries one carries an
\* authorized token with it, no signed token carries the plain text, and a
\* token minted with WithRefreshableToken has no refresh token in plain text
C26_RefreshTokenOnlyAuthorized ==
    /\ resp.RefreshToken # <<>> =>
          /\ resp.err = NoErr
          /\ resp.Token.claims.State = JWTAuthorized
    /\ resp.Token.claims.RefreshToken = <<>>
    /\ \A req \in SignupRequests : \A fault \in SignUpFaults :
          LET o == SignUp(req, SignupRnd, fault)
          IN /\ o.resp.RefreshToken = <<>>
             /\ o.resp.err = NoErr => o.resp.Token.claims.State = JWTPreAuthorized
    /\ \A h \in SignupHeaders : \A code \in Codes : \A fault \in VerifyFaults :
          LET o == Verify(h, <<>>, code, SignupRnd, fault)
          IN o.resp.RefreshToken # <<>> =>
                /\ o.resp.err = NoErr
                /\ o.resp.Token.claims.State = JWTAuthorized
    /\ \A old \in issued : \A state \in TokenStates :
          Create(User1, state, WithRefreshableToken(NilConf, old), SignupRnd)
              .token.RefreshToken = <<>>

\* SignUp has answered with a pre-authorized token; the token was minted with
\* a refresh token, which the response leaves out
C26_Witness ==
    /\ resp.op = "SignUp"
    /\ resp.err = NoErr
    /\ resp.RefreshToken = <<>>
    /\ \E t \in issued :
          /\ Sign(t) = resp.Token
          /\ t.State = JWTPreAuthorized
          /\ t.RefreshToken # <<>>

\* C27: in every step of the device API, Validate of a held token with its
\* cookie returns the user ID, email, phone and tfa-options the token was
\* minted with, and a step that changes neither the ledger nor the clock,
\* whatever it does to the user rows, leaves the answer of Validate as it was
C27_Snapshot ==
    [][\A t \in issued :
          LET v == Validate(HeaderOf(t), t.ClientID, TRUE)
          IN /\ v.err = NoErr =>
                   /\ v.token.UserID = t.UserID
                   /\ v.token.Email = t.Email
                   /\ v.token.Phone = t.Phone
                   /\ v.token.TFAOptions = t.TFAOptions
             /\ (ledger' = ledger /\ now' = now) =>
                   Validate(HeaderOf(t), t.ClientID, TRUE)' = v]_vars

\* a token minted while the user had device MFA enabled validates after the
\* user's last device is removed and the flag is off
C27_Witness ==
    \E t \in issued : \E u \in users :
        /\ u.ID = t.UserID
        /\ ~u.IsDeviceAllowed
        /\ genTFAOptions(u) # t.TFAOptions
        /\ Validate(HeaderOf(t), t.ClientID, TRUE).err = NoErr
        /\ Validate(HeaderOf(t), t.ClientID, TRUE).token.TFAOptions = t.TFAOptions

\* the checks Validate makes on what the client presents
PassesChecks(h, c) ==
    /\ h.scheme = "Bearer "
    /\ jwtParseOK(h.jwt)
    /\ h.jwt.claims.UserID # ""
    /\ DecodeOK(c)
    /\ isHashValid(DecodeString(c), h.jwt.claims.ClientIDHash)

C29_FailsClosed ==
    \A h \in Headers \cup {NilHeader} : \A c \in Cookies : \A dbOk \in BOOLEAN :
        LET v == Validate(h, c, dbOk)
        IN /\ v.err = NoErr => (dbOk /\ v.get = "nil" /\ ~LedgerHit(h.jwt.claims.Id))
           /\ v.err # NoErr => v.token = NilToken
           /\ ~dbOk => (v.err # NoErr /\ v.token = NilToken)
           /\ v.get = "err" => v.err = ErrUncoded("failed to check token in redis")

\* a held token with its cookie is accepted when redis answers and refused
\* when it does not
C29_Witness ==
    \E t \in issued :
        /\ Validate(HeaderOf(t), t.ClientID, TRUE).err = NoErr
        /\ Validate(HeaderOf(t), t.ClientID, FALSE).err
              = ErrUncoded("failed to check token in redis")
        /\ Validate(HeaderOf(t), t.ClientID, FALSE).token = NilToken
        /\ \E o \in issued : LedgerHit(o.Id)

\* C30: with redis answering, every header and cookie that Validate rejects
\* is rejected with the code InvalidToken, a cookie that is not base64url
\* included
C30_RejectionsAreInvalidToken ==
    \A h \in Headers \cup {NilHeader} : \A c \in Cookies :
        LET v == Validate(h, c, TRUE)
        IN v.err # NoErr => v.err.code = "invalid_token"

---------------------------------------------------------------------------
(* Properties of the minted token's second-factor options *)

\* the entries of tfa-options in their fixed order, and the flag each stands for
TFAOrder == <<"otp_phone", "otp_email", "totp", "device">>
TFAFlagOf(option) ==
    CASE option = "otp_phone" -> "IsPhoneOTPAllowed"
      [] option = "otp_email" -> "IsEmailOTPAllowed"
      [] option = "totp" -> "IsTOTPAllowed"
      [] option = "device" -> "IsDeviceAllowed"
TFAPosition(option) == CHOOSE i \in 1..Len(TFAOrder) : TFAOrder[i] = option

\* the user a token of SpecTFA was minted for
FlagUserOf(t) == CHOOSE u \in FlagUsers : u.ID = t.UserID

\* the list has one entry per true flag, none for a false one, in the fixed
\* order
OneEntryPerFlag(options, user) ==
    /\ \A i \in 1..Len(options) : options[i] \in {TFAOrder[k] : k \in 1..Len(TFAOrder)}
    /\ \A k \in 1..Len(TFAOrder) :
          Cardinality({i \in 1..Len(options) : options[i] = TFAOrder[k]})
              = IF user[TFAFlagOf(TFAOrder[k])] THEN 1 ELSE 0
    /\ \A i, j \in 1..Len(options) :
          i < j => TFAPosition(options[i]) < TFAPosition(options[j])

\* C31: for every combination of the user's four flags, the tfa-options of a
\* minted token have exactly one entry per true flag, in the order phone OTP,
\* email OTP, TOTP, device, and are the empty list when all four are false;
\* this holds of every token Create can return and of every token it has
\* returned
C31_TFAOptions ==
    /\ \A u \in FlagUsers, s \in TokenStates, c \in RandomStrings :
          LET r == Create(u, s, NilConf, [clientID |-> c, otp |-> "r1", refresh |-> "r1"])
          IN /\ r.err = NoErr
             /\ OneEntryPerFlag(r.token.TFAOptions, u)
             /\ (\A k \in TFAFlags : ~u[k]) => r.token.TFAOptions = <<>>
    /\ \A t \in issued :
          /\ OneEntryPerFlag(t.TFAOptions, FlagUserOf(t))
          /\ (\A k \in TFAFlags : ~FlagUserOf(t)[k]) => t.TFAOptions = <<>>

\* a token of the user with all four flags is out
C31_Witness ==
    \E t \in issued : t.UserID = "f1111" /\ t.TFAOptions = TFAOrder

---------------------------------------------------------------------------
(* Properties of the refresh token *)

\* the tokens that carry the refresh-token-hash of t0: t0 and the tokens
\* refreshed from it
RefreshedFrom(t0) == {t \in issued : t.RefreshTokenHash = t0.RefreshTokenHash}

\* the tokens minted without WithRefreshableToken: Create handed their
\* refresh token back
FirstMints == {t \in issued : t.RefreshToken # <<>>}

\* the expires-at of the envelope of t0's refresh token
RefreshExpiresAt(t0) == UnmarshalExpiresAt(DecodeString(t0.RefreshToken))

\* C32, as claimed: with the refresh token returned at first mint, Refreshable
\* of the token and of every token refreshed from it succeeds before the
\* envelope's expires-at and fails from then on, and Refreshable with any
\* other candidate string fails
C32_RefreshRoundTrip ==
    \A t0 \in FirstMints : \A t \in RefreshedFrom(t0) :
        /\ now < RefreshExpiresAt(t0) => Refreshable(t, t0.RefreshToken) = NoErr
        /\ now >= RefreshExpiresAt(t0) => Refreshable(t, t0.RefreshToken) # NoErr
        /\ \A r \in RefreshTokens :
              r # t0.RefreshToken => Refreshable(t, r) # NoErr

\* C32, as the code has it: the same, the candidates that fail being the
\* ones that do not decode to the bytes of that refresh token; the envelope
\* expires refreshTokenExpiry after the mint; a candidate that decodes to the
\* same bytes (the refresh token with a line break in it) is answered as the
\* refresh token is
C32_RefreshBinding ==
    \A t0 \in FirstMints : \A t \in RefreshedFrom(t0) :
        /\ RefreshExpiresAt(t0) = t0.ExpiresAt - tokenExpiry + refreshTokenExpiry
        /\ now < RefreshExpiresAt(t0) => Refreshable(t, t0.RefreshToken) = NoErr
        /\ now >= RefreshExpiresAt(t0)
              => Refreshable(t, t0.RefreshToken) = ErrInvalidToken("refresh token is expired")
        /\ \A r \in RefreshTokens :
              /\ (~DecodeOK(r) \/ DecodeString(r) # DecodeString(t0.RefreshToken))
                    => Refreshable(t, r) # NoErr
              /\ (DecodeOK(r) /\ DecodeString(r) = DecodeString(t0.RefreshToken))
                    => Refreshable(t, r) = Refreshable(t, t0.RefreshToken)

\* a token refreshed from a first mint is presented with the first mint's
\* refresh token at the tick the envelope expires, having been refreshable
\* by it up to then, and a refresh token of the client's own is refused
C32_Witness ==
    \E t0 \in FirstMints : \E t \in RefreshedFrom(t0) :
        /\ t # t0 /\ t.RefreshToken = <<>>
        /\ now = RefreshExpiresAt(t0)
        /\ Refreshable(t, t0.RefreshToken) = ErrInvalidToken("refresh token is expired")
        /\ Refreshable(t, EncodeToString(<<"zz">>))
              = ErrInvalidToken("refresh token is invalid")

---------------------------------------------------------------------------
(* Properties of the signup flow's messages and of its failures *)

\* the token a handler minted: the one its outcome added to the tokens out
Minted(o) == o.issued \ issued

\* C33: every SignUp that succeeds hands exactly one message to the
\* messaging service, an OTP message whose delivery method and address are
\* those of the minted token's envelope, which are the type and the identity
\* submitted, and whose code is the one generated with the token, the
\* envelope accepting it; when the send fails the request fails and nothing
\* is added to the outbox; no failed SignUp adds a message; Signup-verify,
\* whose token has no code-hash, sends nothing
C33_OneOTPMessage ==
    /\ \A req \in OTPRequests, fault \in SignUpFaults :
          LET o == SignUp(req, SignupRnd, fault)
          IN /\ o.resp.err = NoErr =>
                  /\ fault # "send"
                  /\ Len(o.outbox) = Len(outbox) + 1
                  /\ SubSeq(o.outbox, 1, Len(outbox)) = outbox
                  /\ \E t \in Minted(o) :
                        LET msg == o.outbox[Len(o.outbox)]
                        IN /\ Minted(o) = {t}
                           /\ o.resp.Token = Sign(t)
                           /\ t.CodeHash # <<>>
                           /\ msg.Type = "otp_signup"
                           /\ msg.Delivery = FromOTPHash(t.CodeHash).DeliveryMethod
                           /\ msg.Address = FromOTPHash(t.CodeHash).Address
                           /\ msg.Delivery = req.Type
                           /\ msg.Address = req.Identity
                           /\ msg.Code = t.Code
                           /\ t.Code # ""
                           /\ ValidateOTP(msg.Code, t.CodeHash) = NoErr
             /\ o.resp.err # NoErr => o.outbox = outbox
             /\ fault = "send" => o.resp.err # NoErr
    /\ \A h \in SignupHeaders, code \in Codes, fault \in VerifyFaults :
          LET o == Verify(h, <<>>, code, SignupRnd, fault)
          IN /\ o.outbox = outbox
             /\ o.resp.err = NoErr => \A t \in Minted(o) : t.CodeHash = <<>>

\* a SignUp by phone has been answered with a token and its message is the
\* last of the outbox, after a message of an earlier SignUp
C33_Witness ==
    /\ resp.op = "SignUp" /\ resp.err = NoErr
    /\ Len(outbox) = 2
    /\ \E t \in issued :
          /\ resp.Token = Sign(t)
          /\ outbox[2].Code = t.Code
          /\ outbox[2].Delivery = Phone
          /\ outbox[2].Address = t.Phone

\* the codes a client can submit: the ones the random source yields, and none
SubmittedCodes == Codes \cup {""}

\* C34: a Signup-verify whose code ValidateOTP rejects fails and leaves the
\* users as they are, mints no token and creates no login-history row; a
\* user is marked verified only by a Signup-verify whose code ValidateOTP
\* accepted against the envelope of the token presented, the user being the
\* token's, and by no SignUp
C34_RejectedCodeChangesNothing ==
    /\ \A h \in SignupHeaders, code \in SubmittedCodes, fault \in VerifyFaults :
          LET auth == AuthMiddleware(h, <<>>, TRUE)
              o == Verify(h, <<>>, code, SignupRnd, fault)
          IN /\ (auth.err = NoErr /\ ValidateOTP(code, auth.token.CodeHash) # NoErr) =>
                  /\ o.resp.err # NoErr
                  /\ o.users = users
                  /\ o.issued = issued /\ o.ulids = ulids
                  /\ o.logins = logins
             /\ \A u \in o.users \ users :
                  /\ u.IsVerified
                  /\ auth.err = NoErr
                  /\ ValidateOTP(code, auth.token.CodeHash) = NoErr
                  /\ u.ID = auth.token.UserID
                  /\ o.users = (users \ {[u EXCEPT !.IsVerified = FALSE]}) \cup {u}
    /\ \A req \in RetryRequests, fault \in SignUpFaults :
          \A u \in SignUp(req, SignupRnd, fault).users : u.IsVerified => u \in users

\* a Signup-verify has been refused for its code while the user of a token
\* held is unverified and the token's own code has expired
C34_Witness ==
    /\ resp.op = "Verify" /\ resp.err = ErrInvalidField("otp")
    /\ \E t \in issued :
          /\ t.CodeHash # <<>>
          /\ now >= FromOTPHash(t.CodeHash).ExpiresAt
          /\ AuthMiddleware(HeaderOf(t), <<>>, TRUE).err = NoErr
          /\ ValidateOTP(t.Code, t.CodeHash) # NoErr
          /\ \E u \in users : u.ID = t.UserID /\ ~u.IsVerified

\* the pre-authorized tokens of a signup that a later signup of the same
\* identity has superseded: a later pre-authorized token was minted for the
\* identity (token IDs are handed out in order)
Superseded ==
    {t \in issued : /\ t.CodeHash # <<>>
                    /\ \E t2 \in issued : /\ t2.CodeHash # <<>>
                                          /\ t2.Email = t.Email /\ t2.Phone = t.Phone
                                          /\ t2.Id > t.Id}

\* the rows that hold the identity a token was issued for
RowsOfIdentity(t) == {u \in users : u.Email = t.Email /\ u.Phone = t.Phone}

\* C35: a Signup-verify that presents a pre-authorized token superseded by a
\* retry of the signup fails whatever the code, the token's own code
\* included: the users stay as they are, the re-created row unverified, no
\* token is minted and no login-history row is created
C35_SupersededTokenIsDead ==
    \A t \in Superseded : \A code \in SubmittedCodes \cup {t.Code}, fault \in VerifyFaults :
        LET o == Verify(HeaderOf(t), t.ClientID, code, SignupRnd, fault)
        IN /\ o.resp.err # NoErr
           /\ o.resp.Token = Sign(NilToken)
           /\ o.users = users
           /\ o.issued = issued /\ o.ulids = ulids
           /\ o.logins = logins

\* a token superseded by a retry with another password is presented with
\* its own code, the token unexpired and the code still good, and refused,
\* the re-created row being unverified
C35_Witness ==
    \E t \in Superseded :
        /\ AuthMiddleware(HeaderOf(t), t.ClientID, TRUE).err = NoErr
        /\ ValidateOTP(t.Code, t.CodeHash) = NoErr
        /\ \E u \in RowsOfIdentity(t) : ~u.IsVerified /\ u.Password = "pw2"
        /\ resp.op = "Verify" /\ resp.err # NoErr
        /\ resp.err = Verify(HeaderOf(t), t.ClientID, t.Code, SignupRnd, "").resp.err

\* the rows a request would store for its identity: unverified, with the
\* request's password
RowsOfRequest(table, req) ==
    {u \in table : u[UserAttribute(req)] = req.Identity
                   /\ ~u.IsVerified /\ u.Password = req.Password}

\* C36: a SignUp for an identity that is not verified, failing in Create, in
\* Sign or in Send, fails with its row stored all the same: the row of the
\* identity is there, unverified and with the request's password, in the
\* place of the row the identity had, and the response carries no token;
\* and wherever an unverified row of an identity is stored, a SignUp for the
\* identity that meets no fault succeeds through reCreateUser, replacing the
\* row and returning a pre-authorized token of the row's ID
C36_NotAtomic ==
    \A req \in RetryRequests :
        LET found == ByIdentity(UserAttribute(req), req.Identity, TRUE)
        IN /\ ~isUserVerified(found.user, found.err) =>
                \A fault \in LateFaults :
                    LET o == SignUp(req, SignupRnd, fault)
                    IN /\ o.resp.err # NoErr
                       /\ o.resp.Token = Sign(NilToken)
                       /\ \E u \in RowsOfRequest(o.users, req) :
                             o.users = (users \ {found.user}) \cup {u}
           /\ isUserNotVerified(found.user, found.err) =>
                LET o == SignUp(req, SignupRnd, "")
                IN /\ o.resp.err = NoErr
                   /\ \E u \in RowsOfRequest(o.users, req) :
                         /\ o.resp.Token.claims.UserID = u.ID
                         /\ o.resp.Token.claims.State = JWTPreAuthorized
                         /\ o.users = (users \ {found.user}) \cup {u}

\* a SignUp has failed in Send, its row is stored unverified, and a SignUp
\* for the identity made now succeeds
C36_Witness ==
    /\ resp.op = "SignUp" /\ resp.err = ErrUncoded("send")
    /\ \E req \in RetryRequests :
          /\ RowsOfRequest(users, req) # {}
          /\ isUserNotVerified(ByIdentity(UserAttribute(req), req.Identity, TRUE).user, "")
          /\ SignUp(req, SignupRnd, "").resp.err = NoErr

---------------------------------------------------------------------------
(* Properties of the message repository *)

\* C37: no Publish sends on a closed message queue: no send of a Publish,
\* made or blocked when the queue is closed, panics
C37_NoSendOnClosed == SendOnClosed \notin trace.panics

\* C38: the message queue is closed at most once, however many times Recent
\* was called: close is called on it at most once and no close panics
C38_ClosedOnce == trace.closes <= 1 /\ CloseOfClosed \notin trace.panics

\* the messages of a sequence
Range(seq) == {seq[i] : i \in 1..Len(seq)}

\* C39, as claimed: the messages whose Publish returned are, in the order
\* the calls returned, the messages received followed by the ones still in
\* the channel, so that none is dropped, duplicated or overtaken; and once
\* Recent has handed out the channel to a consumer that keeps receiving,
\* each of them is received
C39_ExactlyOnceInOrder ==
    /\ [](trace.published = trace.received \o messageQueue.buf)
    /\ \A msg \in 1..MaxMessages :
          (msg \in Range(trace.published) /\ goroutines # <<>>)
             ~> (msg \in Range(trace.received))

---------------------------------------------------------------------------
(* Properties of the ledger's writers.                                     *)

\* the TTLs of the ledger one tick later
Elapsed(l) == [id \in DOMAIN l |-> IF l[id] > 0 THEN l[id] - 1 ELSE l[id]]

\* C40: a step that changes the ledger is either the clock's, which takes
\* one tick off every TTL and removes the entries whose TTL was one tick, or
\* a Revoke, which mints nothing, sets the entry of one issued ID and leaves
\* every other entry as it was; so Create, Sign, Validate, Refreshable and
\* Cookie change nothing in it and no entry goes before its TTL has elapsed
C40_OnlyRevokeWrites ==
    [][\/ ledger' = ledger
       \/ /\ now' = now + 1
          /\ ledger' = Elapsed(ledger)
       \/ /\ now' = now
          /\ issued' = issued
          /\ ulids' = ulids
          /\ \E id \in {t.Id : t \in issued} :
                /\ ledger'[id] # 0
                /\ \A other \in TokenIDs \ {id} : ledger'[other] = ledger[other]]_vars

\* two tokens are out and both IDs are revoked, one for ever and one for a
\* time that is running
C40_Witness ==
    /\ Cardinality({t.Id : t \in issued}) = 2
    /\ \E a, b \in TokenIDs : ledger[a] = Persist /\ ledger[b] > 0
    /\ now > 1

====
